---- MODULE Spec2Model ----
(***************************************************************************)
(* Lease pool and acquisition of rented phone numbers                      *)
(* (src/apis/phone_manager.py, class PhoneManager, over the provider       *)
(* gateway src/apis/sms_api.py, class SMSAPI).                             *)
(*                                                                         *)
(* Time is counted in minutes; time.time() is the variable now, which the  *)
(* action Tick advances by TickStep.  The backing file is assumed          *)
(* writable: _save_numbers never raises.  A single worker drives the       *)
(* manager, so an operation runs to completion before the next starts.     *)
(*                                                                         *)
(* The retry executor (PhoneManager.execute_with_retry) and the wait for   *)
(* the verification code (SMSAPI.get_sms_code) are modelled step by step,  *)
(* one action for an iteration of their loop.  The credential document is  *)
(* assumed readable (refresh_credentials never raises), and a STATUS_OK    *)
(* answer of the provider carries one code, as STATUS_OK:<code>.           *)
(***************************************************************************)
EXTENDS Integers, Sequences, FiniteSets, TLC

\* ------------------------------------------------------------------ bounds
\* Minutes by which one Tick advances the clock.
TickStep == 15
\* Number of ticks the clock may make.
MaxTicks == 2
\* Cap on times_used for the operations that may increment it without limit
\* (add_number of a known number, mark_number_used).
MaxUses == 2
\* Number of activations the provider issues (each purchase gets a fresh id).
MaxPurchases == 2

\* Depth at which the interpreter refuses a further nested call of buy_number
\* (sys.getrecursionlimit(), 1000 by default) and raises RecursionError.
RecursionLimit == 2

\* --------------------------------------------------------------- constants
\* self.reuse_window = 30 * 60 seconds, here in minutes.
reuse_window == 30

\* buy_number_with_retry(service, country, max_brazil_attempts=5)
max_brazil_attempts == 5

\* brazil_code = "73"
brazil_code == "73"

None == "None"

\* The acquisition failure (None, None).
Failure == <<None, None>>

\* Inputs of the operations.
Phones == {"p1", "p2"}
Services == {"go", "tk"}
Countries == {"73", "151", "224", "187"}
\* The alternative countries a caller passes to the acquisition operations.
AlternativeCountries == {"73", "187"}
\* What get_number_status answers: an inventory count.
Availabilities == {0, 3}

\* self.country_priority
country_priority == <<"73", "187", "36", "52", "16", "151", "224", "156", "225">>

\* priority_order of get_reusable_number: the buckets of other_numbers.
priority_order == <<"151", "224", "156", "225">>

VARIABLES
    numbers,    \* self.numbers: the in-memory pool, a sequence of leases
    stored,     \* the content of the backing file (storage_path)
    now,        \* time.time(), in minutes
    issued,     \* the provider: number of activations it has issued so far
    last,       \* the last call of get_reusable_number: its input, its two
                \* clock readings, the pool before it, the pool after pruning,
                \* and what it returned
    pc,         \* where the acquisition request in progress stands ("idle": none)
    req,        \* the acquisition request: operation, service, country, and
                \* the pool when it started
    attempt,    \* buy_number_with_retry: the loop variable attempt
    depth,      \* buy_number: number of nested calls of itself
    country_to_use, \* buy_number: country_to_use
    log,        \* the provider calls of the request, in order, with their answers
    result,     \* what the request returned (<<>> while it has not returned)
    refusal,    \* the provider: what it answers, while the request runs, to a
                \* getNumber request it does not serve
    retry_pc,   \* execute_with_retry: "idle", "loop" (inside the for loop), "done"
    func,       \* execute_with_retry: the wrapped operation func
    max_retries,    \* execute_with_retry: max_retries
    retry_attempt,  \* execute_with_retry: the loop variable attempt
    events,     \* execute_with_retry: the remote requests, the calls of func
                \* and the sleeps of the call, in order
    retry_result,   \* execute_with_retry: what it returned ("" while it has not)
    wait_pc,    \* get_sms_code: "idle", "poll" (inside the for loop), "done"
    wait_id,    \* get_sms_code: activation_id
    max_attempts,   \* get_sms_code: max_attempts
    poll_attempt,   \* get_sms_code: the loop variable attempt
    wait_events,    \* get_sms_code: its getStatus requests, its set_status
                    \* calls and its sleeps, in order
    wait_result,     \* get_sms_code: what it returned ("" while it has not)
    credential,   \* the credential document (credentials.json)
    api_key,      \* SMSAPI.api_key
    params,       \* get_sms_code: the api_key of its params
    sms_codes,    \* webhook.py: sms_codes, activation id -> received code
    cheapest,     \* the last call of get_cheapest_country: its input, what
                  \* the provider reported, and what it returned
    boundary,     \* the last call of a method of SMSAPI: its arguments, what
                  \* its request met, and how it ended
    storage_file, \* the backing file as the file system holds it: absent, a
                  \* JSON text, another text, or bytes that are no text
    loaded        \* how the last _load_numbers ended

poolvars == <<numbers, stored, now, issued, last>>
acqvars == <<pc, req, attempt, depth, country_to_use, log, result, refusal>>
retryvars == <<retry_pc, func, max_retries, retry_attempt, events, retry_result>>
waitvars == <<wait_pc, wait_id, max_attempts, poll_attempt, wait_events,
              wait_result, credential, api_key, params, sms_codes>>
cheapvars == <<cheapest>>
boundaryvars == <<boundary>>
storevars == <<storage_file, loaded>>
othervars == <<retryvars, waitvars, cheapvars, boundaryvars, storevars>>
vars == <<numbers, stored, now, issued, last, pc, req, attempt, depth,
          country_to_use, log, result, refusal, retry_pc, func, max_retries,
          retry_attempt, events, retry_result, wait_pc, wait_id, max_attempts,
          poll_attempt, wait_events, wait_result, credential, api_key, params,
          sms_codes, cheapest, boundary,
          storage_file, loaded>>

MaxTime == TickStep * MaxTicks

\* ------------------------------------------------------------ pure helpers
Range(s) == {s[i] : i \in 1..Len(s)}

\* service in number["services"]
InServices(service, n) == \E i \in 1..Len(n.services) : n.services[i] = service

\* Faulty variant: the lease is filed under the country code in place of the
\* activation id.
new_number_keyed_by_country(phone_number, country_code, activation_id, service, t) ==
    [phone_number |-> phone_number,
     country_code |-> country_code,
     activation_id |-> country_code,
     first_used |-> t,
     last_used |-> t,
     services |-> <<service>>,
     times_used |-> 1]

\* The dictionary add_number builds for a number it does not know yet.
new_number(phone_number, country_code, activation_id, service, t) ==
    [phone_number |-> phone_number,
     country_code |-> country_code,
     activation_id |-> activation_id,
     first_used |-> t,
     last_used |-> t,
     services |-> <<service>>,
     times_used |-> 1]

\* Faulty variant: a known number is never recognised.
never_found(pool, phone_number) == 0

\* Index of the first lease with this phone_number, 0 when there is none.
IndexOfPhone(pool, phone_number) ==
    IF \E i \in 1..Len(pool) : pool[i].phone_number = phone_number
    THEN CHOOSE i \in 1..Len(pool) :
            /\ pool[i].phone_number = phone_number
            /\ \A j \in 1..(i - 1) : pool[j].phone_number # phone_number
    ELSE 0

\* Faulty variant: the service is appended without looking at services.
touch_number_appends(n, service, t) ==
    [n EXCEPT !.last_used = t,
              !.times_used = @ + 1,
              !.services = Append(@, service)]

\* Faulty variant: the use is not counted.
touch_number_uncounted(n, service, t) ==
    [n EXCEPT !.last_used = t,
              !.services = IF InServices(service, n) THEN @ ELSE Append(@, service)]

\* The update add_number and mark_number_used make to a known number.
touch_number(n, service, t) ==
    [n EXCEPT !.last_used = t,
              !.times_used = @ + 1,
              !.services = IF InServices(service, n) THEN @ ELSE Append(@, service)]

\* Faulty variant: incomplete data is stored like any other.
add_number_unchecked(pool, phone_number, country_code, activation_id, service, t) ==
    LET i == IndexOfPhone(pool, phone_number) IN
    IF i # 0
    THEN [pool EXCEPT ![i] = touch_number(@, service, t)]
    ELSE Append(pool,
                new_number(phone_number, country_code, activation_id, service, t))

\* add_number: the pool after the call (unchanged when the data is incomplete).
add_number(pool, phone_number, country_code, activation_id, service, t) ==
    IF phone_number = "" \/ country_code = "" \/ activation_id = ""
    THEN pool
    ELSE LET i == IndexOfPhone(pool, phone_number) IN
         IF i # 0
         THEN [pool EXCEPT ![i] = touch_number(@, service, t)]
         ELSE Append(pool,
                     new_number(phone_number, country_code, activation_id, service, t))

\* add_number: the value it returns, False for incomplete data.
add_number_returns(phone_number, country_code, activation_id) ==
    ~(phone_number = "" \/ country_code = "" \/ activation_id = "")

\* remove_number: the pool after the call.
remove_number(pool, phone_number) ==
    LET i == IndexOfPhone(pool, phone_number) IN
    IF i = 0 THEN pool
    ELSE SubSeq(pool, 1, i - 1) \o SubSeq(pool, i + 1, Len(pool))

\* mark_number_used: the pool after the call.
mark_number_used(pool, phone_number, service, t) ==
    LET i == IndexOfPhone(pool, phone_number) IN
    IF i = 0 THEN pool
    ELSE [pool EXCEPT ![i] = touch_number(@, service, t)]

\* remove_number and mark_number_used: the value they return, True when the
\* loop over self.numbers meets the number.
found_returns(pool, phone_number) == IndexOfPhone(pool, phone_number) # 0

\* Faulty variant: the window test admits the boundary (<= for <).
cleanup_keeps_boundary(pool, t) ==
    SelectSeq(pool, LAMBDA n : (t - n["first_used"]) <= reuse_window)

\* Faulty variant: the age is taken from last_used instead of first_used.
cleanup_by_last_used(pool, t) ==
    SelectSeq(pool, LAMBDA n : (t - n["last_used"]) < reuse_window)

\* _cleanup_expired_numbers at clock value t.
cleanup_expired_numbers(pool, t) ==
    SelectSeq(pool, LAMBDA n : (t - n["first_used"]) < reuse_window)

\* Faulty variant: the services of the lease are not consulted.
InsideWindowOnly(n, service, t) ==
    (t - n.last_used) < reuse_window

\* The test of get_reusable_number's first loop, without the country buckets.
InsideWindowAndUnused(n, service, t) ==
    /\ (t - n.last_used) < reuse_window
    /\ ~InServices(service, n)

\* brazilian_numbers, as the indices of the pool it holds.
brazilian_numbers(pool, service, t) ==
    {i \in 1..Len(pool) :
        InsideWindowAndUnused(pool[i], service, t) /\ pool[i].country_code = "73"}

\* other_numbers[country_code], as the indices of the pool it holds.
other_numbers(pool, country_code, service, t) ==
    {i \in 1..Len(pool) :
        /\ InsideWindowAndUnused(pool[i], service, t)
        /\ pool[i].country_code # "73"
        /\ country_code \in Range(priority_order)
        /\ pool[i].country_code = country_code}

\* Faulty variant: the bucket is not sorted, its first lease is taken.
first_of_bucket(pool, bucket) ==
    CHOOSE i \in bucket : \A j \in bucket : i <= j

\* bucket.sort(key=times_used)[0]: list.sort is stable, so among the leases
\* with the least times_used the one that comes first in the pool.
least_used_first(pool, bucket) ==
    CHOOSE i \in bucket :
        \A j \in bucket :
            \/ pool[i].times_used < pool[j].times_used
            \/ (pool[i].times_used = pool[j].times_used /\ i <= j)

\* The index of the lease get_reusable_number selects, 0 for None.
selected_index(pool, service, t) ==
    IF brazilian_numbers(pool, service, t) # {}
    THEN least_used_first(pool, brazilian_numbers(pool, service, t))
    ELSE IF \E k \in 1..Len(priority_order) :
                other_numbers(pool, priority_order[k], service, t) # {}
         THEN LET k == CHOOSE k \in 1..Len(priority_order) :
                        /\ other_numbers(pool, priority_order[k], service, t) # {}
                        /\ \A m \in 1..(k - 1) :
                              other_numbers(pool, priority_order[m], service, t) = {}
              IN least_used_first(pool, other_numbers(pool, priority_order[k], service, t))
         ELSE 0

\* Faulty variant: last_used is not refreshed.
mark_selected_stale(n, service, t) ==
    [n EXCEPT !.times_used = @ + 1,
              !.services = Append(@, service)]

\* Faulty variant: the service is not noted on the selected lease.
mark_selected_without_service(n, service, t) ==
    [n EXCEPT !.last_used = t,
              !.times_used = @ + 1]

\* What get_reusable_number does to the lease it selected.
mark_selected(n, service, t) ==
    [n EXCEPT !.last_used = t,
              !.times_used = @ + 1,
              !.services = Append(@, service)]

\* Faulty variant: the pool is not written.
save_skipped(pool, file) == file

\* _save_numbers: the content of the backing file after json.dump(self.numbers).
save_numbers(pool, file) == pool

\* Index of the first lease with this activation_id, 0 when there is none.
IndexOfActivation(pool, id) ==
    IF \E i \in 1..Len(pool) : pool[i].activation_id = id
    THEN CHOOSE i \in 1..Len(pool) :
            /\ pool[i].activation_id = id
            /\ \A j \in 1..(i - 1) : pool[j].activation_id # id
    ELSE 0

\* What the provider may answer to a cancel request: ACCESS_CANCEL, another
\* text, or nothing before the timeout of the request.
CancelAnswers == {"ACCESS_CANCEL", "NO_ACTIVATION", "Timeout"}

\* Faulty variant: every answer the provider gives counts as a confirmation.
cancel_confirmed_by_any(answer) == answer # "Timeout"

\* SMSAPI.cancel_number: True for an answer that holds ACCESS_CANCEL, False
\* for any other answer and for an exception of the request.
sms_cancel_number(answer) == answer = "ACCESS_CANCEL"

\* The activation id of the n-th activation the provider issues, as the
\* string get_number cuts out of ACCESS_NUMBER:<activation_id>:<phone_number>.
ActivationId(n) == ToString(n)

\* The values the key of the provider may have in the credential document.
Keys == {"k1", "k2"}

\* The name of the key in the credential document.
KeyName == "SMS_ACTIVATE_API_KEY"

\* get_credential(name): the value the credential document holds under name
\* when it is read.
get_credential(document, name) == document[name]

\* refresh_credentials: the value self.api_key gets.
refresh_credentials(document) == get_credential(document, KeyName)

\* The activation ids the webhook may be called for.
ActivationIds == {ActivationId(n) : n \in 1..MaxPurchases}

\* sms_webhook: sms_codes after a notification with this id and this sms; a
\* notification without one of them is answered with 400 and stores nothing.
sms_webhook(codes, id, sms) ==
    IF id = "" \/ sms = "" THEN codes ELSE [codes EXCEPT ![id] = sms]

\* Python values, with their type.
PyInt(n) == <<"int", n>>
PyFloat(text) == <<"float", text>>
PyStr(text) == <<"str", text>>
PyBool(b) == <<"bool", b>>
PyNone == <<"NoneType">>
PyDict(d) == <<"dict", d>>
PyPair(a, b) == <<"tuple", a, b>>
PyList(elements) == <<"list", elements>>

\* How a piece of code ends: it returns a value or raises an exception.
Return(v) == <<"return", v>>
Raise(e) == <<"raise", e>>

\* ------------------------------------------------------------------- state
NoCall == [op |-> "none", service |-> None, t |-> 0, tc |-> 0, pre |-> <<>>,
           pruned |-> <<>>, idx |-> 0, ret |-> None]

NoChoice == [op |-> "none", service |-> None, available |-> {}, priced |-> {},
             ret |-> Failure]

NoBoundaryCall == [op |-> "none", country |-> None, service |-> None,
                   reply |-> <<"none">>, ret |-> <<"none">>]

NoRequest == [op |-> "none", service |-> None, country |-> None, pre |-> <<>>]

Init ==
    /\ numbers = <<>>
    /\ stored = <<>>
    /\ now = 0
    /\ issued = 0
    /\ last = NoCall
    /\ pc = "idle"
    /\ req = NoRequest
    /\ attempt = 0
    /\ depth = 0
    /\ country_to_use = None
    /\ log = <<>>
    /\ result = <<>>
    /\ refusal = "NO_NUMBERS"
    /\ retry_pc = "idle"
    /\ func = None
    /\ max_retries = 0
    /\ retry_attempt = 0
    /\ events = <<>>
    /\ retry_result = ""
    /\ wait_pc = "idle"
    /\ wait_id = None
    /\ max_attempts = 0
    /\ poll_attempt = 0
    /\ wait_events = <<>>
    /\ wait_result = ""
    /\ credential = [SMS_ACTIVATE_API_KEY |-> "k1"]
    /\ api_key = refresh_credentials(credential)
    /\ params = None
    /\ sms_codes = [id \in ActivationIds |-> None]
    /\ cheapest = NoChoice
    /\ boundary = NoBoundaryCall
    /\ storage_file = <<"absent">>
    /\ loaded = Return(PyList(<<>>))

\* ----------------------------------------------------------------- actions
\* The clock advances.
Tick ==
    /\ now + TickStep <= MaxTime
    /\ now' = now + TickStep
    /\ UNCHANGED <<numbers, stored, issued, last>>
    /\ UNCHANGED <<acqvars, othervars>>

\* add_number(phone_number, country_code, activation_id, service), called with
\* the number and the activation id of a purchase the provider just made.
AddNumber(phone_number, country_code, activation_id, service) ==
    /\ issued < MaxPurchases
    /\ activation_id = ActivationId(issued + 1)
    /\ issued' = issued + 1
    /\ LET i == IndexOfPhone(numbers, phone_number) IN
         i # 0 => numbers[i].times_used < MaxUses
    /\ numbers' = add_number(numbers, phone_number, country_code, activation_id,
                             service, now)
    /\ stored' = IF numbers' = numbers THEN stored ELSE save_numbers(numbers', stored)
    /\ last' = [op |-> "add_number", phone_number |-> phone_number,
                service |-> service, pre |-> numbers]
    /\ UNCHANGED now
    /\ UNCHANGED <<acqvars, othervars>>

\* mark_number_used(phone_number, service)
MarkNumberUsed(phone_number, service) ==
    /\ LET i == IndexOfPhone(numbers, phone_number) IN
         /\ i # 0 => numbers[i].times_used < MaxUses
         /\ numbers' = IF i = 0 THEN numbers
                       ELSE [numbers EXCEPT ![i] = touch_number(@, service, now)]
         /\ stored' = IF i = 0 THEN stored ELSE save_numbers(numbers', stored)
    /\ last' = NoCall
    /\ UNCHANGED <<now, issued>>
    /\ UNCHANGED <<acqvars, othervars>>

\* remove_number(phone_number)
RemoveNumber(phone_number) ==
    /\ LET i == IndexOfPhone(numbers, phone_number) IN
         /\ numbers' = IF i = 0 THEN numbers
                       ELSE SubSeq(numbers, 1, i - 1) \o SubSeq(numbers, i + 1, Len(numbers))
         /\ stored' = IF i = 0 THEN stored ELSE save_numbers(numbers', stored)
    /\ last' = NoCall
    /\ UNCHANGED <<now, issued>>
    /\ UNCHANGED <<acqvars, othervars>>

\* get_reusable_number(service).  current_time is read first (t1); the clock
\* is read again inside _cleanup_expired_numbers (t2 >= t1).
GetReusableNumber(service) ==
    \E d \in {0, TickStep} :
        /\ now + d <= MaxTime
        /\ LET t1 == now
               t2 == now + d
               pruned == cleanup_expired_numbers(numbers, t2)
               i == selected_index(pruned, service, t1)
               post == IF i = 0 THEN pruned
                       ELSE [pruned EXCEPT ![i] = mark_selected(@, service, t1)]
           IN /\ numbers' = post
              /\ stored' = save_numbers(post, stored)
              /\ now' = t2
              /\ UNCHANGED issued
              /\ UNCHANGED <<acqvars, othervars>>
              /\ last' = [op |-> "get_reusable_number", service |-> service,
                          t |-> t1, tc |-> t2, pre |-> numbers, pruned |-> pruned,
                          idx |-> i, ret |-> IF i = 0 THEN None ELSE post[i]]

\* cancel_number(activation_id): the cancel request is sent, and on a
\* confirmation the first lease with that activation_id is deleted and the
\* pool saved.
CancelNumber(id, answer) ==
    /\ LET i == IndexOfActivation(numbers, id)
           confirmed == sms_cancel_number(answer)
       IN /\ numbers' = IF confirmed /\ i # 0
                         THEN SubSeq(numbers, 1, i - 1) \o SubSeq(numbers, i + 1, Len(numbers))
                         ELSE numbers
          /\ stored' = IF confirmed /\ i # 0
                        THEN save_numbers(numbers', stored) ELSE stored
          /\ last' = [op |-> "cancel_number", activation_id |-> id,
                      answer |-> answer, pre |-> numbers, file |-> stored,
                      ret |-> confirmed]
    /\ UNCHANGED <<now, issued>>
    /\ UNCHANGED <<acqvars, othervars>>

Next ==
    \/ Tick
    \/ \E p \in Phones, c \in Countries, s \in Services :
          AddNumber(p, c, ActivationId(issued + 1), s)
    \/ \E p \in Phones, s \in Services : MarkNumberUsed(p, s)
    \/ \E p \in Phones : RemoveNumber(p)
    \/ \E n \in 1..MaxPurchases, a \in CancelAnswers : CancelNumber(ActivationId(n), a)
    \/ \E s \in Services : GetReusableNumber(s)

Spec == Init /\ [][Next]_vars

\* ------------------------------------------------------------- acquisition
\* One provider call of a request, as the log keeps it.
StatusCall(country, service, count) ==
    [action |-> "getNumbersStatus", country |-> country, service |-> service,
     result |-> count]

\* The error tokens of getNumber that get_number knows (error_messages).
RejectionTokens == {"NO_NUMBERS", "NO_BALANCE", "BAD_SERVICE", "BAD_KEY"}

\* What the provider may answer to a getNumber request it does not serve: one
\* of the tokens, or nothing before the timeout of the request.
Refusals == RejectionTokens \cup {"Timeout"}

\* SMSAPI.get_number on the provider's answer, <<"ACCESS_NUMBER", id, number>>
\* for ACCESS_NUMBER:<id>:<number> and <<token>> otherwise: the pair
\* (activation_id, phone_number) of an ACCESS_NUMBER answer, and (None, None)
\* for every token, every other text and every exception of the request.
get_number(response) ==
    IF response[1] = "ACCESS_NUMBER"
    THEN <<response[2], response[3]>>
    ELSE Failure

PurchaseCall(country, service, response) ==
    [action |-> "getNumber", country |-> country, service |-> service,
     response |-> response[1], result |-> get_number(response)]

\* force_brazil = service == "go"
force_brazil(service) == service = "go"

\* for attempt in range(max_brazil_attempts): the next value of attempt.
range_next(a) == a + 1

\* Faulty variant: an iteration that found no availability is made again.
continue_same_attempt(a) == a

\* `continue` in the body of the loop: the for statement takes the next value
\* of range(max_brazil_attempts).
continue_iteration(a) == range_next(a)

\* Where buy_number_with_retry goes after an iteration that got no number:
\* the next iteration, or buy_number(service, country) after the last one.
after_iteration(a) ==
    IF range_next(a) < max_brazil_attempts THEN "bwr_status" ELSE "bn_enter"

\* Faulty variant: the nested call is made whatever country the purchase failed in.
calls_itself_after_any(service, used, country) ==
    force_brazil(service) /\ country # brazil_code

\* Faulty variant: Brazil is bought whatever its availability.
always_brazil(service, country, brazil_available) ==
    IF force_brazil(service) THEN brazil_code ELSE country

\* buy_number: the country the purchase is made in.
choose_country(service, country, brazil_available) ==
    IF force_brazil(service)
    THEN IF brazil_available > 0 THEN brazil_code ELSE country
    ELSE country

\* buy_number: the test that leads to the nested call buy_number(service, country).
calls_itself(service, used, country) ==
    force_brazil(service) /\ used = brazil_code /\ country # brazil_code

\* Faulty variant: the lease is stored under the caller's country.
stored_country_of_caller(used, country) == country

\* buy_number: the country_code handed to add_number.
stored_country(used, country) == used

\* Faulty variant: RecursionError is not caught and leaves buy_number.
overflow_propagates == <<"RecursionError">>

\* buy_number: RecursionError, raised by the nested call the interpreter
\* refuses, is caught by `except Exception` and (None, None) is returned.
overflow_result == Failure

StartRequest(op, service, country) ==
    /\ pc = "idle"
    /\ req' = [op |-> op, service |-> service, country |-> country, pre |-> numbers]
    /\ attempt' = 0
    /\ depth' = 0
    /\ country_to_use' = None
    /\ log' = <<>>
    /\ result' = <<>>
    /\ refusal' \in Refusals
    /\ UNCHANGED <<poolvars, othervars>>

\* buy_number_with_retry(service, country) is called.
StartBuyNumberWithRetry(service, country) ==
    /\ StartRequest("buy_number_with_retry", service, country)
    /\ pc' = IF service = "go" /\ 0 < max_brazil_attempts THEN "bwr_status" ELSE "bn_enter"

\* buy_number(service, country) is called.
StartBuyNumber(service, country) ==
    /\ StartRequest("buy_number", service, country)
    /\ pc' = "bn_enter"

\* buy_number_with_retry, one iteration: the availability of Brazil is asked
\* (execute_with_retry(check_brazil); check_brazil raises nothing).
BwrStatus(brazil_available) ==
    /\ pc = "bwr_status"
    /\ log' = Append(log, StatusCall(brazil_code, req.service, brazil_available))
    /\ IF brazil_available <= 0
       THEN /\ attempt' = continue_iteration(attempt)
            /\ pc' = after_iteration(attempt)
       ELSE /\ attempt' = attempt
            /\ pc' = "bwr_buy"
    /\ UNCHANGED <<req, depth, country_to_use, result>>
    /\ UNCHANGED <<poolvars, refusal, othervars>>

\* buy_number_with_retry: the purchase in Brazil yields a number.
BwrBuyOk(phone_number) ==
    /\ pc = "bwr_buy"
    /\ issued < MaxPurchases
    /\ LET activation_id == ActivationId(issued + 1) IN
         /\ log' = Append(log, PurchaseCall(brazil_code, req.service,
                                <<"ACCESS_NUMBER", activation_id, phone_number>>))
         /\ numbers' = add_number(numbers, phone_number, brazil_code,
                                  activation_id, req.service, now)
         /\ stored' = save_numbers(numbers', stored)
         /\ result' = <<activation_id, phone_number>>
    /\ issued' = issued + 1
    /\ pc' = "idle"
    /\ UNCHANGED <<req, attempt, depth, country_to_use, now, last, refusal, othervars>>

\* buy_number_with_retry: the purchase in Brazil yields (None, None).
BwrBuyFail ==
    /\ pc = "bwr_buy"
    /\ log' = Append(log, PurchaseCall(brazil_code, req.service, <<refusal>>))
    /\ attempt' = range_next(attempt)
    /\ pc' = after_iteration(attempt)
    /\ UNCHANGED <<req, depth, country_to_use, result>>
    /\ UNCHANGED <<poolvars, refusal, othervars>>

\* buy_number, entry: for a forced service the availability of Brazil is asked
\* and decides country_to_use.
BnEnterForced(brazil_available) ==
    /\ pc = "bn_enter"
    /\ force_brazil(req.service)
    /\ log' = Append(log, StatusCall(brazil_code, req.service, brazil_available))
    /\ country_to_use' = choose_country(req.service, req.country, brazil_available)
    /\ pc' = "bn_buy"
    /\ UNCHANGED <<req, attempt, depth, result>>
    /\ UNCHANGED <<poolvars, refusal, othervars>>

\* buy_number, entry, for a service that is not forced.
BnEnterPlain ==
    /\ pc = "bn_enter"
    /\ ~force_brazil(req.service)
    /\ country_to_use' = choose_country(req.service, req.country, 0)
    /\ pc' = "bn_buy"
    /\ UNCHANGED <<req, attempt, depth, log, result>>
    /\ UNCHANGED <<poolvars, refusal, othervars>>

\* buy_number: the purchase in country_to_use yields a number.
BnBuyOk(phone_number) ==
    /\ pc = "bn_buy"
    /\ issued < MaxPurchases
    /\ LET activation_id == ActivationId(issued + 1) IN
         /\ log' = Append(log, PurchaseCall(country_to_use, req.service,
                                <<"ACCESS_NUMBER", activation_id, phone_number>>))
         /\ numbers' = add_number(numbers, phone_number,
                                  stored_country(country_to_use, req.country),
                                  activation_id, req.service, now)
         /\ stored' = save_numbers(numbers', stored)
         /\ result' = <<activation_id, phone_number>>
    /\ issued' = issued + 1
    /\ pc' = "idle"
    /\ UNCHANGED <<req, attempt, depth, country_to_use, now, last, refusal, othervars>>

\* buy_number: the purchase in country_to_use yields (None, None).
BnBuyFail ==
    /\ pc = "bn_buy"
    /\ log' = Append(log, PurchaseCall(country_to_use, req.service, <<refusal>>))
    /\ IF calls_itself(req.service, country_to_use, req.country)
       THEN IF depth < RecursionLimit
            THEN /\ depth' = depth + 1
                 /\ pc' = "bn_enter"
                 /\ result' = result
            ELSE /\ depth' = depth
                 /\ pc' = "idle"
                 /\ result' = overflow_result
       ELSE /\ depth' = depth
            /\ pc' = "idle"
            /\ result' = Failure
    /\ UNCHANGED <<req, attempt, country_to_use>>
    /\ UNCHANGED <<poolvars, refusal, othervars>>

\* A step of the request in progress.
AcqStep ==
    \/ \E a \in Availabilities : BwrStatus(a)
    \/ \E p \in Phones : BwrBuyOk(p)
    \/ BwrBuyFail
    \/ \E a \in Availabilities : BnEnterForced(a)
    \/ BnEnterPlain
    \/ \E p \in Phones : BnBuyOk(p)
    \/ BnBuyFail

AcqNext ==
    \/ \E s \in Services, c \in AlternativeCountries : StartBuyNumberWithRetry(s, c)
    \/ \E s \in Services, c \in AlternativeCountries : StartBuyNumber(s, c)
    \/ AcqStep

AcqSpec == Init /\ [][AcqNext]_vars

\* The provider answers every call, so a request in progress goes on.
AcqFairSpec == AcqSpec /\ WF_vars(AcqStep)

\* ------------------------------------------------------ execute_with_retry
\* Largest max_retries a caller passes (the default is 3).
MaxRetries == 3

\* Python values, written as Python writes them.
EmptyDict == "{}"
Zero == "0"

\* The operations the manager wraps: fetch_prices (get_prices), check_brazil
\* (buy_number_with_retry), check_availability
\* (compare_prices_in_selected_countries), buy_brazilian
\* (buy_number_with_retry).  Each issues one request to the provider.
Closures == {"fetch_prices", "check_brazil", "check_availability", "buy_brazilian"}

\* Any other callable handed to execute_with_retry: one that yields a
\* mapping ("lookup") and one that yields a number ("count").
Callables == {"lookup", "count"}

\* What the request of a closure meets at the provider.
RemoteOutcomes == {"ok", "ConnectionError", "Timeout", "status_500"}

\* What a call of another callable does: it returns a value, returns None, or
\* raises (the three classes of requests.exceptions, or another exception).
CallOutcomes == {"value", "None", "ConnectionError", "Timeout",
                 "RequestException", "ValueError"}

\* SMSAPI.get_number_status: the count of a 200 answer, 0 for everything else
\* (an answer that is not 200, an exception of the request).
sms_get_number_status(remote) == IF remote = "ok" THEN "3" ELSE Zero

\* SMSAPI.get_prices: the mapping of a 200 answer, {} for everything else.
sms_get_prices(remote) == IF remote = "ok" THEN "prices" ELSE EmptyDict

\* buy_brazilian over SMSAPI.get_number: the pair of an ACCESS_NUMBER answer,
\* (None, None) for everything else.
buy_brazilian(remote) == IF remote = "ok" THEN "(id, number)" ELSE "(None, None)"

\* func(): <<"return", value>> or <<"raise", exception class>>.
call(f, outcome) ==
    CASE f = "fetch_prices" -> <<"return", sms_get_prices(outcome)>>
      [] f \in {"check_brazil", "check_availability"} ->
            <<"return", sms_get_number_status(outcome)>>
      [] f = "buy_brazilian" -> <<"return", buy_brazilian(outcome)>>
      [] f \in Callables /\ outcome = "value" ->
            <<"return", IF f = "lookup" THEN "prices" ELSE "3">>
      [] f \in Callables /\ outcome = "None" -> <<"return", None>>
      [] OTHER -> <<"raise", outcome>>

\* The outcomes a call of f can have.
OutcomesOf(f) == IF f \in Closures THEN RemoteOutcomes ELSE CallOutcomes

\* Faulty variant: every exception is retried.
every_exception(e) == TRUE

\* except (ConnectionError, Timeout, RequestException)
caught_for_retry(e) == e \in {"ConnectionError", "Timeout", "RequestException"}

\* Faulty variant: the executor sleeps after every failed attempt.
sleeps_after_every(a, m) == TRUE

\* if attempt < max_retries - 1: time.sleep(retry_delay)
sleeps_before_next(a, m) == a < m - 1

\* return {} if isinstance(func, dict) else 0: func is a callable, never a dict.
none_default(f) == Zero

\* return {} after the loop.
exhausted_default(f) == EmptyDict

\* One entry of events.
Event(ev, what) == [ev |-> ev, what |-> what]

\* The entries one call of func adds: the request of a closure, then the call
\* with what it did.
CallEvents(f, outcome) ==
    (IF f \in Closures THEN <<Event("request", outcome)>> ELSE <<>>)
        \o <<Event("call", call(f, outcome))>>

\* execute_with_retry(func, max_retries) is called.  With max_retries = 0 the
\* loop body never runs and {} is returned.
StartExecuteWithRetry(f, m) ==
    /\ retry_pc \in {"idle", "done"}
    /\ func' = f
    /\ max_retries' = m
    /\ retry_attempt' = 0
    /\ events' = <<>>
    /\ IF 0 < m
       THEN retry_pc' = "loop" /\ retry_result' = ""
       ELSE retry_pc' = "done" /\ retry_result' = exhausted_default(f)
    /\ UNCHANGED <<poolvars, acqvars, waitvars, cheapvars, boundaryvars, storevars>>

\* An iteration in which func() returns a value: it is returned.
FuncReturns(outcome) ==
    /\ retry_pc = "loop"
    /\ outcome \in OutcomesOf(func)
    /\ call(func, outcome)[1] = "return"
    /\ call(func, outcome)[2] # None
    /\ events' = events \o CallEvents(func, outcome)
    /\ retry_result' = call(func, outcome)[2]
    /\ retry_pc' = "done"
    /\ UNCHANGED <<func, max_retries, retry_attempt>>
    /\ UNCHANGED <<poolvars, acqvars, waitvars, cheapvars, boundaryvars, storevars>>

\* An iteration in which func() returns None.
FuncReturnsNone(outcome) ==
    /\ retry_pc = "loop"
    /\ outcome \in OutcomesOf(func)
    /\ call(func, outcome) = <<"return", None>>
    /\ events' = events \o CallEvents(func, outcome)
    /\ retry_result' = none_default(func)
    /\ retry_pc' = "done"
    /\ UNCHANGED <<func, max_retries, retry_attempt>>
    /\ UNCHANGED <<poolvars, acqvars, waitvars, cheapvars, boundaryvars, storevars>>

\* An iteration in which func() raises an exception of the retried classes:
\* the executor sleeps and goes on unless this was the last attempt, after
\* which the loop ends and {} is returned.
FuncRaisesRetried(outcome) ==
    /\ retry_pc = "loop"
    /\ outcome \in OutcomesOf(func)
    /\ call(func, outcome)[1] = "raise"
    /\ caught_for_retry(call(func, outcome)[2])
    /\ events' = events \o CallEvents(func, outcome)
                    \o (IF sleeps_before_next(retry_attempt, max_retries)
                        THEN <<Event("sleep", <<>>)>> ELSE <<>>)
    /\ retry_attempt' = range_next(retry_attempt)
    /\ IF range_next(retry_attempt) < max_retries
       THEN retry_pc' = "loop" /\ retry_result' = retry_result
       ELSE retry_pc' = "done" /\ retry_result' = exhausted_default(func)
    /\ UNCHANGED <<func, max_retries>>
    /\ UNCHANGED <<poolvars, acqvars, waitvars, cheapvars, boundaryvars, storevars>>

\* An iteration in which func() raises any other exception: break, and {} is
\* returned.
FuncRaisesOther(outcome) ==
    /\ retry_pc = "loop"
    /\ outcome \in OutcomesOf(func)
    /\ call(func, outcome)[1] = "raise"
    /\ ~caught_for_retry(call(func, outcome)[2])
    /\ events' = events \o CallEvents(func, outcome)
    /\ retry_result' = exhausted_default(func)
    /\ retry_pc' = "done"
    /\ UNCHANGED <<func, max_retries, retry_attempt>>
    /\ UNCHANGED <<poolvars, acqvars, waitvars, cheapvars, boundaryvars, storevars>>

RetryNext ==
    \/ \E f \in Closures \cup Callables, m \in 1..MaxRetries :
          StartExecuteWithRetry(f, m)
    \/ \E o \in RemoteOutcomes \cup CallOutcomes : FuncReturns(o)
    \/ \E o \in CallOutcomes : FuncReturnsNone(o)
    \/ \E o \in CallOutcomes : FuncRaisesRetried(o)
    \/ \E o \in CallOutcomes : FuncRaisesOther(o)

RetrySpec == Init /\ [][RetryNext]_vars

\* ------------------------------------------------------------ get_sms_code
\* Largest max_attempts a caller passes (the default is 10).
MaxAttempts == 3

\* The codes the provider may deliver.
Codes == {"4711"}

\* What a getStatus request may meet: STATUS_OK:<code>, STATUS_CANCEL, another
\* text of a 200 answer, an answer that is not 200, an exception of the
\* request.
Responses ==
    {<<"STATUS_OK", c>> : c \in Codes}
        \cup {<<"STATUS_CANCEL">>, <<"STATUS_WAIT_CODE">>, <<"status_500">>,
              <<"Timeout">>}

\* Faulty variant: STATUS_CANCEL is not looked for.
observed_without_cancel(response) ==
    IF response[1] = "STATUS_OK" THEN "code" ELSE "nothing"

\* What one iteration makes of the answer: the code, the cancellation, or
\* nothing.
observed(response) ==
    CASE response[1] = "STATUS_OK" -> "code"
      [] response[1] = "STATUS_CANCEL" -> "canceled"
      [] OTHER -> "nothing"

\* Faulty variant: the loop makes one more iteration.
polls_once_more(a, m) == range_next(a) <= m

\* for attempt in range(max_attempts): whether another iteration follows.
polls_again(a, m) == range_next(a) < m

\* One entry of wait_events: a getStatus request with the answer it met, a
\* set_status call with its status, or a sleep.  A request is recorded with
\* the api_key it carries and with the value the credential document holds
\* when it is sent; a getStatus request also with whether the webhook holds a
\* code for the activation when it is sent.
StatusRequest(id, response, key, document, codes) ==
    [ev |-> "getStatus", id |-> id, what |-> response[1], key |-> key,
     current |-> get_credential(document, KeyName), pushed |-> codes[id] # None]
SetStatus(id, status, key, document) ==
    [ev |-> "setStatus", id |-> id, what |-> status, key |-> key,
     current |-> get_credential(document, KeyName)]
Sleep(id) == [ev |-> "sleep", id |-> id, what |-> <<>>]

\* get_sms_code(activation_id, max_attempts) is called.
StartGetSmsCode(id, m) ==
    /\ wait_pc \in {"idle", "done"}
    /\ wait_id' = id
    /\ max_attempts' = m
    /\ poll_attempt' = 0
    /\ api_key' = refresh_credentials(credential)
    /\ params' = api_key'
    /\ IF 0 < m
       THEN /\ wait_pc' = "poll"
            /\ wait_events' = <<>>
            /\ wait_result' = ""
       ELSE /\ wait_pc' = "done"
            /\ wait_events' = <<SetStatus(id, 6, api_key', credential)>>
            /\ wait_result' = None
    /\ UNCHANGED <<credential, sms_codes>>
    /\ UNCHANGED <<poolvars, acqvars, retryvars, cheapvars, boundaryvars, storevars>>

\* An iteration whose request meets STATUS_OK:<code>: set_status(id, 3), and
\* the code is returned.
PollCode(response) ==
    /\ wait_pc = "poll"
    /\ observed(response) = "code"
    /\ api_key' = refresh_credentials(credential)
    /\ wait_events' = wait_events
                        \o <<StatusRequest(wait_id, response, params, credential, sms_codes),
                             SetStatus(wait_id, 3, api_key', credential)>>
    /\ wait_result' = response[2]
    /\ wait_pc' = "done"
    /\ UNCHANGED <<wait_id, max_attempts, poll_attempt, credential, params, sms_codes>>
    /\ UNCHANGED <<poolvars, acqvars, retryvars, cheapvars, boundaryvars, storevars>>

\* An iteration whose request meets STATUS_CANCEL: None is returned.
PollCanceled(response) ==
    /\ wait_pc = "poll"
    /\ observed(response) = "canceled"
    /\ wait_events' = Append(wait_events,
                             StatusRequest(wait_id, response, params, credential, sms_codes))
    /\ wait_result' = None
    /\ wait_pc' = "done"
    /\ UNCHANGED <<wait_id, max_attempts, poll_attempt, credential, api_key, params,
                   sms_codes>>
    /\ UNCHANGED <<poolvars, acqvars, retryvars, cheapvars, boundaryvars, storevars>>

\* An iteration whose request meets neither: the loop sleeps and goes on;
\* after the last iteration set_status(id, 6) is called and None returned.
PollNothing(response) ==
    /\ wait_pc = "poll"
    /\ observed(response) = "nothing"
    /\ poll_attempt' = range_next(poll_attempt)
    /\ IF polls_again(poll_attempt, max_attempts)
       THEN /\ wait_events' = wait_events
                                \o <<StatusRequest(wait_id, response, params, credential,
                                                   sms_codes),
                                     Sleep(wait_id)>>
            /\ wait_pc' = "poll"
            /\ wait_result' = wait_result
            /\ api_key' = api_key
       ELSE /\ api_key' = refresh_credentials(credential)
            /\ wait_events' = wait_events
                                \o <<StatusRequest(wait_id, response, params, credential,
                                                   sms_codes),
                                     Sleep(wait_id),
                                     SetStatus(wait_id, 6, api_key', credential)>>
            /\ wait_pc' = "done"
            /\ wait_result' = None
    /\ UNCHANGED <<wait_id, max_attempts, credential, params, sms_codes>>
    /\ UNCHANGED <<poolvars, acqvars, retryvars, cheapvars, boundaryvars, storevars>>

\* The credential document is rewritten with another value of the key.  A
\* refresh_credentials and the request that follows it are one step: the
\* first request of a wait is sent before the document changes again.
Rotate(k) ==
    /\ k # credential[KeyName]
    /\ ~(wait_pc = "poll" /\ wait_events = <<>>)
    /\ credential' = [credential EXCEPT ![KeyName] = k]
    /\ UNCHANGED <<wait_pc, wait_id, max_attempts, poll_attempt, wait_events,
                   wait_result, api_key, params, sms_codes>>
    /\ UNCHANGED <<poolvars, acqvars, retryvars, cheapvars, boundaryvars, storevars>>

\* The provider notifies the webhook of an sms for an activation.
SmsWebhook(id, sms) ==
    /\ sms_codes' = sms_webhook(sms_codes, id, sms)
    /\ sms_codes' # sms_codes
    /\ UNCHANGED <<wait_pc, wait_id, max_attempts, poll_attempt, wait_events,
                   wait_result, credential, api_key, params>>
    /\ UNCHANGED <<poolvars, acqvars, retryvars, cheapvars, boundaryvars, storevars>>

\* A step of the wait in progress.
WaitStep ==
    \/ \E r \in Responses : PollCode(r)
    \/ \E r \in Responses : PollCanceled(r)
    \/ \E r \in Responses : PollNothing(r)

WaitNext ==
    \/ \E n \in 1..MaxPurchases, m \in 1..MaxAttempts :
          StartGetSmsCode(ActivationId(n), m)
    \/ WaitStep
    \/ \E k \in Keys : Rotate(k)
    \/ \E id \in ActivationIds, sms \in Codes \cup {""} : SmsWebhook(id, sms)

WaitSpec == Init /\ [][WaitNext]_vars

\* The provider answers every getStatus request, or the request times out,
\* so a wait in progress goes on.
WaitFairSpec == WaitSpec /\ WF_vars(WaitStep)

\* ------------------------------------------- the calls that change the pool
\* What a caller may pass for a text: a value, or the empty text.
OrEmpty(values) == values \cup {""}

\* add_number(phone_number, country_code, activation_id, service), with the
\* value it returns.
CallAddNumber(phone_number, country_code, activation_id, service) ==
    /\ activation_id # "" => issued < MaxPurchases
    /\ issued' = IF activation_id # "" THEN issued + 1 ELSE issued
    /\ LET i == IndexOfPhone(numbers, phone_number) IN
         i # 0 => numbers[i].times_used < MaxUses
    /\ numbers' = add_number(numbers, phone_number, country_code, activation_id,
                             service, now)
    /\ stored' = IF add_number_returns(phone_number, country_code, activation_id)
                 THEN save_numbers(numbers', stored) ELSE stored
    /\ last' = [op |-> "add_number", phone_number |-> phone_number,
                country_code |-> country_code, activation_id |-> activation_id,
                service |-> service, pre |-> numbers, file |-> stored,
                ret |-> add_number_returns(phone_number, country_code, activation_id)]
    /\ UNCHANGED now
    /\ UNCHANGED <<acqvars, othervars>>

\* remove_number(phone_number), with the value it returns.
CallRemoveNumber(phone_number) ==
    /\ numbers' = remove_number(numbers, phone_number)
    /\ stored' = IF found_returns(numbers, phone_number)
                 THEN save_numbers(numbers', stored) ELSE stored
    /\ last' = [op |-> "remove_number", phone_number |-> phone_number,
                pre |-> numbers, file |-> stored,
                ret |-> found_returns(numbers, phone_number)]
    /\ UNCHANGED <<now, issued>>
    /\ UNCHANGED <<acqvars, othervars>>

\* mark_number_used(phone_number, service), with the value it returns.
CallMarkNumberUsed(phone_number, service) ==
    /\ LET i == IndexOfPhone(numbers, phone_number) IN
         i # 0 => numbers[i].times_used < MaxUses
    /\ numbers' = mark_number_used(numbers, phone_number, service, now)
    /\ stored' = IF found_returns(numbers, phone_number)
                 THEN save_numbers(numbers', stored) ELSE stored
    /\ last' = [op |-> "mark_number_used", phone_number |-> phone_number,
                service |-> service, pre |-> numbers, file |-> stored,
                ret |-> found_returns(numbers, phone_number)]
    /\ UNCHANGED <<now, issued>>
    /\ UNCHANGED <<acqvars, othervars>>

CallNext ==
    \/ \E p \in OrEmpty(Phones), c \in OrEmpty(AlternativeCountries),
          id \in OrEmpty({ActivationId(issued + 1)}), s \in Services :
          CallAddNumber(p, c, id, s)
    \/ \E p \in Phones : CallRemoveNumber(p)
    \/ \E p \in Phones, s \in Services : CallMarkNumberUsed(p, s)

CallSpec == Init /\ [][CallNext]_vars

\* ------------------------------------------------- the wait and the pool
\* A caller waits for the sms of a lease of the pool: get_sms_code is called
\* with the activation_id of the lease and makes one poll.
WaitForLease(i) ==
    /\ i \in 1..Len(numbers)
    /\ StartGetSmsCode(numbers[i].activation_id, 1)

\* The operations on the pool next to the waits for its leases.
LeaseNext ==
    \/ \E p \in Phones, c \in Countries, s \in Services :
          AddNumber(p, c, ActivationId(issued + 1), s)
    \/ \E p \in Phones : RemoveNumber(p)
    \/ \E n \in 1..MaxPurchases, a \in CancelAnswers : CancelNumber(ActivationId(n), a)
    \/ \E s \in Services : GetReusableNumber(s)
    \/ \E i \in 1..MaxPurchases : WaitForLease(i)
    \/ WaitStep

LeaseSpec == Init /\ [][LeaseNext]_vars

\* ---------------------------------------------------- get_cheapest_country
\* Number of leading countries of country_priority in which the provider may
\* have inventory or a price; it has none in the countries after them.
MaxCountries == 4

\* The countries in which the provider may have inventory or a price.
Stocked == Range(SubSeq(country_priority, 1, MaxCountries))

\* The price get_cheapest_country returns with a country: the cost of the
\* entry of get_prices, or the 0.0 it puts in place of a missing entry.
Cost == "cost"
NoCost == "0.0"

\* Faulty variant: Brazil is given up when there is no price for it.
brazil_needs_price(priced) ==
    IF brazil_code \in priced THEN <<brazil_code, Cost>> ELSE Failure

\* brazil_available > 0: Brazil is returned, with its price when get_prices
\* has an entry for it and the service, and with 0.0 otherwise.
brazil_first(priced) ==
    <<brazil_code, IF brazil_code \in priced THEN Cost ELSE NoCost>>

\* The second loop over country_priority[1:], from position i on: the first
\* country that is in country_availability and for which the get_prices of
\* its iteration has an entry; (None, None) when the loop runs out.
RECURSIVE first_priced(_, _, _)
first_priced(i, country_availability, priced) ==
    IF i > Len(country_priority)
    THEN Failure
    ELSE IF country_priority[i] \in country_availability
              /\ country_priority[i] \in priced
         THEN <<country_priority[i], Cost>>
         ELSE first_priced(i + 1, country_availability, priced)

\* get_cheapest_country(service), for the set of countries in which
\* get_number_status reports a count above 0 for the service and the set of
\* countries for which the get_prices asked for them has an entry.
get_cheapest_country(available, priced) ==
    IF brazil_code \in available
    THEN brazil_first(priced)
    ELSE LET country_availability ==
                 {country_priority[i] : i \in 2..Len(country_priority)} \cap available
         IN IF country_availability = {}
            THEN Failure
            ELSE first_priced(2, country_availability, priced)

\* get_cheapest_country(service) is called and returns.
GetCheapestCountry(service, available, priced) ==
    /\ cheapest' = [op |-> "get_cheapest_country", service |-> service,
                    available |-> available, priced |-> priced,
                    ret |-> get_cheapest_country(available, priced)]
    /\ UNCHANGED <<poolvars, acqvars, retryvars, waitvars, boundaryvars, storevars>>

CheapestNext ==
    \E service \in Services, available \in SUBSET Stocked, priced \in SUBSET Stocked :
        GetCheapestCountry(service, available, priced)

CheapestSpec == Init /\ [][CheapestNext]_vars

\* ------------------------------------------- the requests to the provider
\* response.status_code == 200
HTTP_OK == 200

\* The value of a decimal digit.
DigitValue ==
    "0" :> 0 @@ "1" :> 1 @@ "2" :> 2 @@ "3" :> 3 @@ "4" :> 4 @@
    "5" :> 5 @@ "6" :> 6 @@ "7" :> 7 @@ "8" :> 8 @@ "9" :> 9

\* The number a sequence of decimal digits writes.
RECURSIVE DecimalValue(_)
DecimalValue(digits) ==
    IF digits = <<>> THEN 0
    ELSE 10 * DecimalValue(SubSeq(digits, 1, Len(digits) - 1))
            + DigitValue[digits[Len(digits)]]

\* Faulty variant: the count is handed on as the document holds it.
python_int_skipped(x) == Return(x)

\* int(x) of Python, for the values a JSON document can hold under a key: an
\* integer is kept, a float is truncated (given as numerator and
\* denominator), a string of digits is read, any other string raises
\* ValueError, a list or a mapping raises TypeError.
python_int(x) ==
    CASE x[1] = "int" -> Return(x)
      [] x[1] = "ratio" -> Return(PyInt(x[2] \div x[3]))
      [] x[1] = "str" ->
            IF x[2] # <<>> /\ \A i \in 1..Len(x[2]) : x[2][i] \in DOMAIN DigitValue
            THEN Return(PyInt(DecimalValue(x[2])))
            ELSE Raise("ValueError")
      [] OTHER -> Raise("TypeError")

\* The texts float() reads as a number.
Numerals == {"12.5"}

\* float(text) of Python.
python_float(text) ==
    IF text \in Numerals THEN Return(PyFloat(text)) ELSE Raise("ValueError")

\* What a request meets: an exception of requests.get, or an answer with a
\* status code and a body.  A body is a text, given as its parts between
\* colons, or a JSON document.
TransportErrors == {<<"ConnectionError">>, <<"Timeout">>}
Answer(status_code, body) == <<"answer", status_code, body>>
Text(parts) == <<"text", parts>>
Json(document) == <<"json", document>>

\* response.json(): the document, or ValueError for a body that is not JSON.
response_json(body) ==
    IF body[1] = "json" THEN Return(body[2]) ELSE Raise("ValueError")

\* The first part of response.text (what `TOKEN in response.text` looks for).
Token(body) == IF body[1] = "text" /\ body[2] # <<>> THEN body[2][1] ELSE ""

\* The number of parts response.text.split(':') yields.
Parts(body) == IF body[1] = "text" THEN body[2] ELSE <<"{}">>

\* Faulty variant: only the exceptions of the request itself are caught.
except_request_errors(e) == e \in {"ConnectionError", "Timeout"}

\* except Exception: every exception class met here derives from Exception.
except_Exception(e) ==
    e \in {"ConnectionError", "Timeout", "ValueError", "TypeError", "KeyError",
           "IndexError", "AttributeError"}

\* try: <body> except Exception: return default
absorbed(outcome, default) ==
    IF outcome[1] = "raise" /\ except_Exception(outcome[2])
    THEN Return(default)
    ELSE outcome

\* SMSAPI.get_balance: the amount of a 200 answer ACCESS_BALANCE:<amount>,
\* None otherwise.
try_get_balance(reply) ==
    IF reply[1] # "answer" THEN Raise(reply[1])
    ELSE IF reply[2] = HTTP_OK /\ Token(reply[3]) = "ACCESS_BALANCE"
         THEN IF Len(Parts(reply[3])) < 2 THEN Raise("IndexError")
              ELSE python_float(Parts(reply[3])[2])
         ELSE Return(PyNone)
SMSAPI_get_balance(reply) == absorbed(try_get_balance(reply), PyNone)

\* SMSAPI.get_prices: the mapping built from the JSON document of a 200
\* answer, {} otherwise.  The document is a list, or a mapping whose entries
\* are complete ("prices"), lack "cost" or hold a cost that float() rejects.
try_get_prices(reply) ==
    IF reply[1] # "answer" THEN Raise(reply[1])
    ELSE IF reply[2] # HTTP_OK THEN Return(PyDict(EmptyDict))
    ELSE LET data == response_json(reply[3]) IN
         IF data[1] = "raise" THEN data
         ELSE CASE data[2][1] = "list" -> Raise("AttributeError")
                [] data[2][1] = "no_cost" -> Raise("KeyError")
                [] data[2][1] = "bad_cost" -> Raise("ValueError")
                [] OTHER -> Return(PyDict("prices"))
SMSAPI_get_prices(reply) == absorbed(try_get_prices(reply), PyDict(EmptyDict))

\* SMSAPI.get_number_status: data.get(service, 0) of the JSON mapping of a 200
\* answer, through int(); 0 for a count that is None, for a document that is
\* not a mapping, for an answer that is not 200 and for every exception.  No
\* request is made without a country or a service.
try_get_number_status(reply) ==
    IF reply[1] # "answer" THEN Raise(reply[1])
    ELSE IF reply[2] # HTTP_OK THEN Return(PyInt(0))
    ELSE LET data == response_json(reply[3]) IN
         IF data[1] = "raise" THEN data
         ELSE IF data[2][1] # "dict" THEN Return(PyInt(0))
         ELSE LET service_count == IF data[2][2][1] = "missing"
                                   THEN PyInt(0) ELSE data[2][2]
              IN IF service_count[1] = "NoneType" THEN Return(PyInt(0))
                 ELSE python_int(service_count)
SMSAPI_get_number_status(country, service, reply) ==
    IF country = "" \/ service = ""
    THEN Return(PyInt(0))
    ELSE absorbed(try_get_number_status(reply), PyInt(0))

\* PhoneManager.get_number_status: the status of SMSAPI.get_number_status, 0
\* for a status that is neither an int nor None, for None and for an
\* exception.
PhoneManager_get_number_status(country, service, reply) ==
    LET status == SMSAPI_get_number_status(country, service, reply) IN
    absorbed(IF status[1] = "raise" THEN status
             ELSE IF status[2][1] \notin {"int", "bool", "NoneType"} THEN Return(PyInt(0))
             ELSE IF status[2][1] = "NoneType" THEN Return(PyInt(0))
             ELSE status,
             PyInt(0))

\* SMSAPI.get_number: the pair of an answer ACCESS_NUMBER:<id>:<number>,
\* (None, None) otherwise.
try_get_number(reply) ==
    IF reply[1] # "answer" THEN Raise(reply[1])
    ELSE IF Token(reply[3]) = "ACCESS_NUMBER"
         THEN IF Len(Parts(reply[3])) # 3 THEN Raise("ValueError")
              ELSE Return(PyPair(PyStr(Parts(reply[3])[2]), PyStr(Parts(reply[3])[3])))
         ELSE Return(PyPair(PyNone, PyNone))
SMSAPI_get_number(reply) == absorbed(try_get_number(reply), PyPair(PyNone, PyNone))

\* SMSAPI.set_status: True for a 200 answer that holds ACCESS_CANCEL, False
\* otherwise.
try_set_status(reply) ==
    IF reply[1] # "answer" THEN Raise(reply[1])
    ELSE Return(PyBool(reply[2] = HTTP_OK /\ Token(reply[3]) = "ACCESS_CANCEL"))
SMSAPI_set_status(reply) == absorbed(try_set_status(reply), PyBool(FALSE))

\* SMSAPI.cancel_number: True for an answer that holds ACCESS_CANCEL, False
\* otherwise.
try_cancel_number(reply) ==
    IF reply[1] # "answer" THEN Raise(reply[1])
    ELSE Return(PyBool(Token(reply[3]) = "ACCESS_CANCEL"))
SMSAPI_cancel_number(reply) == absorbed(try_cancel_number(reply), PyBool(FALSE))

\* SMSAPI.get_sms_code with max_attempts = 1: the code of a 200 answer
\* STATUS_OK:<code>, None otherwise (after STATUS_CANCEL, and after the loop
\* has run out and set_status(activation_id, 6) has been called).
try_get_status(reply) ==
    IF reply[1] # "answer" THEN Raise(reply[1])
    ELSE IF reply[2] = HTTP_OK /\ Token(reply[3]) = "STATUS_OK"
         THEN IF Len(Parts(reply[3])) # 2 THEN Raise("ValueError")
              ELSE Return(PyStr(Parts(reply[3])[2]))
         ELSE Return(PyNone)
SMSAPI_get_sms_code(reply) == absorbed(try_get_status(reply), PyNone)

\* The methods of SMSAPI that send a request, and the one of PhoneManager
\* that wraps one.
Methods == {"get_balance", "get_prices", "get_number_status", "get_number",
            "set_status", "cancel_number", "get_sms_code",
            "PhoneManager.get_number_status"}

\* The counts the JSON document of getNumbersStatus may hold for a service.
Counts ==
    {PyInt(3), PyInt(0), <<"ratio", 5, 2>>, <<"str", <<"3">>>>, <<"str", <<"1", "2">>>>,
     <<"str", <<"a", "b", "c">>>>, <<"str", <<>>>>, PyNone, <<"list">>, <<"missing">>}

\* The bodies an answer to the request of a method may have.
Bodies(method) ==
    CASE method = "get_balance" ->
            {Text(<<"ACCESS_BALANCE", "12.5">>), Text(<<"ACCESS_BALANCE", "abc">>),
             Text(<<"ACCESS_BALANCE">>), Text(<<"BAD_KEY">>)}
      [] method = "get_prices" ->
            {Json(<<"prices">>), Json(<<"no_cost">>), Json(<<"bad_cost">>),
             Json(<<"list">>), Text(<<"BAD_KEY">>)}
      [] method \in {"get_number_status", "PhoneManager.get_number_status"} ->
            {Json(<<"dict", c>>) : c \in Counts}
                \cup {Json(<<"list">>), Text(<<"BAD_KEY">>)}
      [] method = "get_number" ->
            {Text(<<"ACCESS_NUMBER", "1", "p1">>), Text(<<"ACCESS_NUMBER", "1">>),
             Text(<<"NO_NUMBERS">>), Text(<<"NO_BALANCE">>), Text(<<"ERROR_SQL">>)}
      [] method \in {"set_status", "cancel_number"} ->
            {Text(<<"ACCESS_CANCEL">>), Text(<<"NO_ACTIVATION">>), Text(<<"ERROR_SQL">>)}
      [] OTHER ->
            {Text(<<"STATUS_OK", "4711">>), Text(<<"STATUS_OK", "47", "11">>),
             Text(<<"STATUS_CANCEL">>), Text(<<"STATUS_WAIT_CODE">>)}

\* What the request of a method may meet.
Replies(method) ==
    TransportErrors
        \cup {Answer(status_code, body) :
                 status_code \in {HTTP_OK, 500}, body \in Bodies(method)}

\* How the call of a method ends.
sms_api(method, country, service, reply) ==
    CASE method = "get_balance" -> SMSAPI_get_balance(reply)
      [] method = "get_prices" -> SMSAPI_get_prices(reply)
      [] method = "get_number_status" -> SMSAPI_get_number_status(country, service, reply)
      [] method = "PhoneManager.get_number_status" ->
            PhoneManager_get_number_status(country, service, reply)
      [] method = "get_number" -> SMSAPI_get_number(reply)
      [] method = "set_status" -> SMSAPI_set_status(reply)
      [] method = "cancel_number" -> SMSAPI_cancel_number(reply)
      [] OTHER -> SMSAPI_get_sms_code(reply)

\* A method is called and its request meets reply.
BoundaryCall(method, country, service, reply) ==
    /\ boundary' = [op |-> method, country |-> country, service |-> service,
                    reply |-> reply, ret |-> sms_api(method, country, service, reply)]
    /\ UNCHANGED <<poolvars, acqvars, retryvars, waitvars, cheapvars, storevars>>

BoundaryNext ==
    \E method \in Methods, country \in {brazil_code, ""}, service \in {"go", ""} :
        \E reply \in Replies(method) :
            BoundaryCall(method, country, service, reply)

BoundarySpec == Init /\ [][BoundaryNext]_vars

\* --------------------------------------------------------- the backing file
\* json.dump of a lease: a JSON object with a string, a number or an array of
\* strings under each key.
json_dump_number(n) ==
    [phone_number |-> <<"string", n.phone_number>>,
     country_code |-> <<"string", n.country_code>>,
     activation_id |-> <<"string", n.activation_id>>,
     first_used |-> <<"number", n.first_used>>,
     last_used |-> <<"number", n.last_used>>,
     services |-> <<"array", [i \in 1..Len(n.services) |-> <<"string", n.services[i]>>]>>,
     times_used |-> <<"number", n.times_used>>]

\* json.dump(self.numbers): a JSON array of objects.
json_dump(pool) ==
    <<"array", [i \in 1..Len(pool) |-> <<"object", json_dump_number(pool[i])>>]>>

\* json.load of the object of a lease: a dict with a str, a number or a list
\* of str under each key.
json_load_number(object) ==
    [phone_number |-> object.phone_number[2],
     country_code |-> object.country_code[2],
     activation_id |-> object.activation_id[2],
     first_used |-> object.first_used[2],
     last_used |-> object.last_used[2],
     services |-> [i \in 1..Len(object.services[2]) |-> object.services[2][i][2]],
     times_used |-> object.times_used[2]]

\* json.load of a document: the list of a JSON array of leases, None for
\* null, a dict for any JSON object.
json_load(document) ==
    CASE document[1] = "array" ->
            PyList([i \in 1..Len(document[2]) |-> json_load_number(document[2][i][2])])
      [] document[1] = "null" -> PyNone
      [] OTHER -> PyDict(document[2])

\* What the file system may hold at storage_path after a damage: a text cut
\* short, nothing at all (an empty file), a JSON text that is not an array
\* of leases, or bytes that are not text in the encoding open() uses.
Damages ==
    {<<"text", "[{">>, <<"text", "">>, <<"json", <<"null">>>>,
     <<"json", <<"object", "{}">>>>, <<"bytes">>}

\* The encodings open(storage_path, 'r') may use: that of the locale.  One of
\* them decodes every byte, the other rejects bytes that are not UTF-8.
Encodings == {"utf-8", "latin-1"}

\* try: json.load(f): the value of a JSON text, JSONDecodeError for another
\* text, and for bytes UnicodeDecodeError or, when they decode,
\* JSONDecodeError.
try_load(content, encoding) ==
    CASE content[1] = "json" -> Return(json_load(content[2]))
      [] content[1] = "text" -> Raise("JSONDecodeError")
      [] content[1] = "bytes" ->
            IF encoding = "utf-8" THEN Raise("UnicodeDecodeError")
            ELSE Raise("JSONDecodeError")
      [] OTHER -> Raise("FileNotFoundError")

\* except (json.JSONDecodeError, FileNotFoundError)
except_load(e) == e \in {"JSONDecodeError", "FileNotFoundError"}

\* _load_numbers: [] when storage_path does not exist; otherwise what
\* json.load gives, and [] when it raises one of the two exceptions.
load_numbers(content, encoding) ==
    IF content[1] = "absent"
    THEN Return(PyList(<<>>))
    ELSE LET outcome == try_load(content, encoding) IN
         IF outcome[1] = "raise" /\ except_load(outcome[2])
         THEN Return(PyList(<<>>))
         ELSE outcome

\* The manager holds a pool: the last load returned a list.
Usable == loaded[1] = "return" /\ loaded[2][1] = "list"

\* add_number for a purchase, with the save that ends it.
StoreAdd(phone_number, country_code, service) ==
    /\ Usable
    /\ issued < MaxPurchases
    /\ issued' = issued + 1
    /\ LET i == IndexOfPhone(numbers, phone_number) IN
         i # 0 => numbers[i].times_used < MaxUses
    /\ numbers' = add_number(numbers, phone_number, country_code,
                             ActivationId(issued + 1), service, now)
    /\ stored' = save_numbers(numbers', stored)
    /\ storage_file' = <<"json", json_dump(numbers')>>
    /\ UNCHANGED <<now, last, loaded>>
    /\ UNCHANGED <<acqvars, retryvars, waitvars, cheapvars, boundaryvars>>

\* remove_number, with the save that ends it.
StoreRemove(phone_number) ==
    /\ Usable
    /\ LET i == IndexOfPhone(numbers, phone_number) IN
         /\ i # 0
         /\ numbers' = SubSeq(numbers, 1, i - 1) \o SubSeq(numbers, i + 1, Len(numbers))
    /\ stored' = save_numbers(numbers', stored)
    /\ storage_file' = <<"json", json_dump(numbers')>>
    /\ UNCHANGED <<now, issued, last, loaded>>
    /\ UNCHANGED <<acqvars, retryvars, waitvars, cheapvars, boundaryvars>>

\* The storage_file is deleted or damaged while no manager runs.
Damage(content) ==
    /\ storage_file' = content
    /\ storage_file' # storage_file
    /\ UNCHANGED <<poolvars, loaded>>
    /\ UNCHANGED <<acqvars, retryvars, waitvars, cheapvars, boundaryvars>>

\* A manager is constructed: self.numbers = self._load_numbers().  When the
\* load raises there is no manager; when it returns a value that is not a
\* list the manager holds that value.
Load(encoding) ==
    /\ loaded' = load_numbers(storage_file, encoding)
    /\ numbers' = IF loaded'[1] = "return" /\ loaded'[2][1] = "list"
                  THEN loaded'[2][2] ELSE <<>>
    /\ last' = [op |-> "_load_numbers", content |-> storage_file, written |-> stored]
    /\ UNCHANGED <<stored, now, issued, storage_file>>
    /\ UNCHANGED <<acqvars, retryvars, waitvars, cheapvars, boundaryvars>>

StoreNext ==
    \/ \E p \in Phones, c \in Countries, service \in Services : StoreAdd(p, c, service)
    \/ \E p \in Phones : StoreRemove(p)
    \/ \E content \in Damages \cup {<<"absent">>} : Damage(content)
    \/ \E encoding \in Encodings : Load(encoding)

StoreSpec == Init /\ [][StoreNext]_vars

\* ------------------------------------------------------- claims on the pool
Reused == last.op = "get_reusable_number" /\ last.idx # 0
ReuseCalled == last.op = "get_reusable_number"

\* The leases of pool with this phone number.
WithPhone(pool, phone_number) ==
    {i \in 1..Len(pool) : pool[i].phone_number = phone_number}

\* C1: get_reusable_number(S) never returns a lease whose services already
\* contained S before the call.
C1_NeverSameService ==
    Reused =>
        \A i \in WithPhone(last.pre, last.ret.phone_number) :
            last.service \notin Range(last.pre[i].services)

\* C1 witness: a lease is returned for S while another lease of the pool,
\* still inside the window, had already been used for S.
C1_Witness ==
    /\ Reused
    /\ \E i \in 1..Len(last.pruned) :
          /\ i # last.idx
          /\ last.service \in Range(last.pruned[i].services)

\* C2: a returned lease is younger than the reuse window at the time of the
\* call, and after the call the pool holds no lease that is reuse_window old
\* or older (at the clock reading of the call, and at the later one of the
\* pruning).
C2_ExpiredNeverReturned ==
    ReuseCalled =>
        /\ last.idx # 0 => last.t - last.ret.first_used < reuse_window
        /\ \A i \in 1..Len(numbers) :
              /\ last.t - numbers[i].first_used < reuse_window
              /\ last.tc - numbers[i].first_used < reuse_window

\* C2 witness: the only lease of the pool is reuse_window old, has not been
\* used for S, and the call for S prunes it and returns None.
C2_Witness ==
    /\ ReuseCalled
    /\ Len(last.pre) = 1
    /\ last.t - last.pre[1].first_used >= reuse_window
    /\ last.service \notin Range(last.pre[1].services)
    /\ last.idx = 0
    /\ numbers = <<>>

\* C3: pruning at clock value tc removes exactly the leases with
\* tc - first_used >= reuse_window; the others are kept, unchanged and in
\* their order.
C3_PruneExactlyExpired ==
    ReuseCalled =>
        LET keep == {i \in 1..Len(last.pre) :
                        last.pre[i].first_used + reuse_window > last.tc}
        IN /\ Len(last.pruned) = Cardinality(keep)
           /\ \A i \in keep : \E j \in 1..Len(last.pruned) :
                 /\ last.pruned[j] = last.pre[i]
                 /\ j = Cardinality({k \in keep : k <= i})

\* C3 witness: pruning drops one lease and keeps another.
C3_Witness ==
    /\ ReuseCalled
    /\ Len(last.pre) = 2
    /\ Len(last.pruned) = 1

\* A lease qualifies for reuse for service S at time t.
Qualifies(n, service, t) ==
    /\ t - n.first_used < reuse_window
    /\ service \notin Range(n.services)

\* Position of a country among the buckets of get_reusable_number
\* (Brazil, then priority_order), 0 for a country that has no bucket.
BucketRank(country_code) ==
    IF country_code = "73" THEN 1
    ELSE IF \E k \in 1..Len(priority_order) : priority_order[k] = country_code
         THEN 1 + (CHOOSE k \in 1..Len(priority_order) : priority_order[k] = country_code)
         ELSE 0

\* C4 as claimed: the returned lease has the smallest times_used of all the
\* leases that qualify (here only those of a country that has a bucket, so
\* that a lease get_reusable_number never considers does not count).
C4_LeastUsedOfAll ==
    Reused =>
        \A j \in 1..Len(last.pruned) :
            /\ Qualifies(last.pruned[j], last.service, last.t)
            /\ BucketRank(last.pruned[j].country_code) # 0
            => last.pruned[last.idx].times_used <= last.pruned[j].times_used

\* C4 amended: the returned lease is of the first country, in the order 73,
\* 151, 224, 156, 225, that has a qualifying lease, and within that country it
\* has the smallest times_used (the earliest in the pool among equals).
C4_BucketThenLeastUsed ==
    Reused =>
        LET sel == last.pruned[last.idx]
            Q == {j \in 1..Len(last.pruned) :
                    /\ Qualifies(last.pruned[j], last.service, last.t)
                    /\ BucketRank(last.pruned[j].country_code) # 0}
        IN /\ last.idx \in Q
           /\ \A j \in Q :
                \/ BucketRank(sel.country_code) < BucketRank(last.pruned[j].country_code)
                \/ /\ sel.country_code = last.pruned[j].country_code
                   /\ \/ sel.times_used < last.pruned[j].times_used
                      \/ (sel.times_used = last.pruned[j].times_used /\ last.idx <= j)

\* C4 witness: a Brazilian lease is returned although a qualifying lease of
\* another bucket has been used less.
C4_Witness ==
    /\ Reused
    /\ last.pruned[last.idx].country_code = "73"
    /\ \E j \in 1..Len(last.pruned) :
          /\ Qualifies(last.pruned[j], last.service, last.t)
          /\ BucketRank(last.pruned[j].country_code) > 1
          /\ last.pruned[j].times_used < last.pruned[last.idx].times_used

\* C4 witness of the tie-break inside a bucket: two qualifying leases of one
\* country, the second used less than the first, and the second is returned.
C4_WitnessInBucket ==
    /\ Reused
    /\ last.idx = 2
    /\ last.pruned[1].country_code = last.pruned[2].country_code
    /\ Qualifies(last.pruned[1], last.service, last.t)

\* C5 as claimed: when a lease of a country of the priority table qualifies,
\* the call returns a lease.
C5_ReturnsWhenOneQualifies ==
    ReuseCalled =>
        ((\E j \in 1..Len(last.pruned) :
             /\ Qualifies(last.pruned[j], last.service, last.t)
             /\ last.pruned[j].country_code \in Range(country_priority))
          => last.idx # 0)

\* C6: a successful reuse increments times_used of the returned lease by one,
\* sets its last_used to the time of the call and adds S to its services; its
\* other fields and every other lease that was not pruned are unchanged.
C6_MarksExactlyTheReturned ==
    Reused =>
        /\ Len(numbers) = Len(last.pruned)
        /\ numbers[last.idx] = last.ret
        /\ \A j \in 1..Len(numbers) : j # last.idx => numbers[j] = last.pruned[j]
        /\ \A i \in 1..Len(last.pre) :
              IF last.pre[i].phone_number = last.ret.phone_number
              THEN /\ last.ret.times_used = last.pre[i].times_used + 1
                   /\ last.ret.last_used = last.t
                   /\ Range(last.ret.services) = Range(last.pre[i].services) \cup {last.service}
                   /\ Len(last.ret.services) = Len(last.pre[i].services) + 1
                   /\ last.ret.country_code = last.pre[i].country_code
                   /\ last.ret.activation_id = last.pre[i].activation_id
                   /\ last.ret.first_used = last.pre[i].first_used
              ELSE last.tc - last.pre[i].first_used < reuse_window
                      => \E j \in 1..Len(numbers) : numbers[j] = last.pre[i]

\* C6 witness: a lease used once, for "go", is reused for "tk" ten or more
\* minutes later and now has times_used 2 and services {go, tk}, while the
\* pool holds a second lease.
C6_Witness ==
    /\ Reused
    /\ last.service = "tk"
    /\ last.pruned[last.idx].services = <<"go">>
    /\ last.pruned[last.idx].times_used = 1
    /\ last.t > last.pruned[last.idx].first_used
    /\ last.ret.times_used = 2
    /\ Range(last.ret.services) = {"go", "tk"}
    /\ Len(numbers) = 2

Canceled == last.op = "cancel_number"
Added == last.op = "add_number"

\* pool without its leases of this activation_id
WithoutActivation(pool, id) ==
    SelectSeq(pool, LAMBDA n : n["activation_id"] # id)

\* C22: cancel_number removes from the pool only when the provider answered
\* ACCESS_CANCEL: after any other answer, or none, the pool and the file are
\* as before and False is returned; after ACCESS_CANCEL True is returned, the
\* lease with that activation_id is gone from the pool and from the file, and
\* every other lease is kept, unchanged and in order.
C22_RemovesOnlyOnConfirmation ==
    Canceled =>
        IF last.answer = "ACCESS_CANCEL"
        THEN /\ last.ret = TRUE
             /\ numbers = WithoutActivation(last.pre, last.activation_id)
             /\ stored = WithoutActivation(last.file, last.activation_id)
             /\ Len(numbers) >= Len(last.pre) - 1
        ELSE /\ last.ret = FALSE
             /\ numbers = last.pre
             /\ stored = last.file

\* C22 witness: the pool held two leases, the provider confirmed the
\* cancellation of the activation of the first one, and the second one alone
\* is left.
C22_Witness ==
    /\ Canceled
    /\ last.answer = "ACCESS_CANCEL"
    /\ Len(last.pre) = 2
    /\ last.pre[1].activation_id = last.activation_id
    /\ numbers = <<last.pre[2]>>

\* C23: at the return of every operation of the pool the backing file holds
\* the pool of the memory.
C23_PersistedEqualsMemory == stored = numbers

\* C23 witness: a reuse that pruned an expired lease and marked another one
\* has returned, and the file holds the pool as the call left it.
C23_Witness ==
    /\ Reused
    /\ Len(last.pruned) < Len(last.pre)
    /\ numbers # last.pruned
    /\ stored = numbers

\* C24: no two leases of the pool have the same phone_number.
C24_PhoneNumberUnique ==
    \A i, j \in 1..Len(numbers) :
        numbers[i].phone_number = numbers[j].phone_number => i = j

\* C24 witness: add_number was called with a phone_number the pool already
\* held, and the pool has as many leases as before.
C24_Witness ==
    /\ Added
    /\ WithPhone(last.pre, last.phone_number) # {}
    /\ Len(numbers) = Len(last.pre)
    /\ numbers # last.pre

\* C25: the activation_id values of the leases of the pool are pairwise
\* distinct.
C25_ActivationIdUnique ==
    \A i, j \in 1..Len(numbers) :
        numbers[i].activation_id = numbers[j].activation_id => i = j

\* C25 witness: two purchases were stored, for two numbers of one country,
\* and the pool holds the two leases under two activation ids.
C25_Witness ==
    /\ Added
    /\ Len(numbers) = 2
    /\ numbers[1].country_code = numbers[2].country_code
    /\ numbers[1].activation_id # numbers[2].activation_id

\* C26: no service is twice in the services of a lease and times_used is at
\* least 1; a number add_number files as new starts with times_used 1, and a
\* reuse adds exactly 1 to times_used of the lease it returns.
C26_ServicesDistinctUsesCounted ==
    /\ \A i \in 1..Len(numbers) :
          /\ Cardinality(Range(numbers[i].services)) = Len(numbers[i].services)
          /\ numbers[i].times_used >= 1
    /\ (Added /\ WithPhone(last.pre, last.phone_number) = {}) =>
          \A i \in WithPhone(numbers, last.phone_number) : numbers[i].times_used = 1
    /\ Reused => last.ret.times_used = last.pruned[last.idx].times_used + 1

\* C26 witness: add_number was called for a known number with a service that
\* its lease already listed; the lease counts one more use and lists the
\* service once.
C26_Witness ==
    /\ Added
    /\ \E i \in WithPhone(last.pre, last.phone_number) :
          /\ last.service \in Range(last.pre[i].services)
          /\ numbers[i].times_used = last.pre[i].times_used + 1
          /\ numbers[i].services = last.pre[i].services

\* ------------------------------------------------ claims on the acquisition
\* The purchase requests of the request, in order.
Purchases == SelectSeq(log, LAMBDA c : c["action"] = "getNumber")
Succeeded(c) == c.result # Failure
Returned == pc = "idle" /\ req.op # "none"

\* C7: in one request every purchase attempt that is followed by another one
\* was made in the preferred country and failed (preferred country first,
\* then the fallback, stop at the first success), so at most one number is
\* purchased, and the pool gains at most one lease.
C7_PriorityOrderOnePurchase ==
    LET buys == Purchases IN
    /\ \A i \in 1..Len(buys) :
          i < Len(buys) => ~Succeeded(buys[i]) /\ buys[i].country = brazil_code
    /\ Cardinality({i \in 1..Len(buys) : Succeeded(buys[i])}) <= 1
    /\ Len(numbers) <= Len(req.pre) + 1
    /\ ~force_brazil(req.service) => Len(buys) <= 1

\* C7 witness: the preferred country was tried first and failed, then the
\* fallback was tried and yielded the number the request returned.
C7_Witness ==
    LET buys == Purchases IN
    /\ Returned
    /\ Len(buys) >= 2
    /\ buys[1].country = brazil_code
    /\ buys[Len(buys)].country # brazil_code
    /\ Succeeded(buys[Len(buys)])
    /\ result = buys[Len(buys)].result

\* C8 as claimed: a purchase request for country C comes only after an
\* availability check for C in the same request, the latest of which
\* returned more than 0.
C8_PurchaseOnlyAfterAvailability ==
    \A i \in 1..Len(log) :
        log[i].action = "getNumber" =>
            \E k \in 1..(i - 1) :
                /\ log[k].action = "getNumbersStatus"
                /\ log[k].country = log[i].country
                /\ log[k].result > 0
                /\ \A m \in (k + 1)..(i - 1) :
                      ~(log[m].action = "getNumbersStatus" /\ log[m].country = log[i].country)

\* C8 amended: availability is asked for the preferred country 73 only, and
\* only for the forced service.  In a forced request every purchase request
\* comes right after such a check: in 73 when it returned more than 0, in the
\* caller's country when it returned 0.  A request that is not forced makes
\* its one purchase request in the caller's country with no check at all.
C8_OnlyPreferredIsChecked ==
    \A i \in 1..Len(log) :
        /\ log[i].action = "getNumbersStatus" =>
              log[i].country = brazil_code /\ force_brazil(req.service)
        /\ log[i].action = "getNumber" =>
              IF force_brazil(req.service)
              THEN /\ i > 1
                   /\ log[i - 1].action = "getNumbersStatus"
                   /\ \/ log[i - 1].result > 0 /\ log[i].country = brazil_code
                      \/ log[i - 1].result = 0 /\ log[i].country = req.country
              ELSE i = 1 /\ log[i].country = req.country

\* C8 witness: Brazil reports 0, the purchase is made in the caller's country
\* 187 only, which was never checked, and yields a new lease of country 187
\* with times_used 1.
C8_Witness ==
    /\ Returned
    /\ req.op = "buy_number"
    /\ req.country = "187"
    /\ Len(log) = 2
    /\ log[1] = StatusCall(brazil_code, "go", 0)
    /\ log[2].action = "getNumber" /\ log[2].country = "187" /\ Succeeded(log[2])
    /\ req.pre = <<>>
    /\ Len(numbers) = 1
    /\ numbers[1].country_code = "187"
    /\ numbers[1].times_used = 1

\* The last provider call of the request yielded a number.
Purchased ==
    /\ Returned
    /\ Len(log) > 0
    /\ log[Len(log)].action = "getNumber"
    /\ Succeeded(log[Len(log)])

C10_AcquisitionTerminates ==
    /\ (pc # "idle") ~> (pc = "idle")
    /\ [](Returned /\ (\A i \in 1..Len(log) : log[i].action = "getNumber" => ~Succeeded(log[i]))
            => result = Failure)

\* C10 witness: Brazil reported availability on every check and every purchase
\* there failed; buy_number_with_retry used its attempts, buy_number called
\* itself until the interpreter refused, and the request returned (None, None).
C10_Witness ==
    /\ Returned
    /\ req.op = "buy_number_with_retry"
    /\ req.country = "187"
    /\ result = Failure
    /\ Len(Purchases) = max_brazil_attempts + RecursionLimit + 1
    /\ \A i \in 1..Len(log) :
          /\ log[i].country = brazil_code
          /\ log[i].action = "getNumbersStatus" => log[i].result > 0

\* The availability checks of the request made before the i-th provider call.
StatusCallsBefore(i) ==
    Cardinality({k \in 1..(i - 1) : log[k].action = "getNumbersStatus"})

\* C11 as claimed: a forced request of buy_number_with_retry whose fallback
\* country is not the preferred one makes at most max_brazil_attempts purchase
\* attempts in the preferred country, and every purchase attempt that comes
\* after the forced iterations (each of which starts with one availability
\* check) is made in the fallback country.
C11_ForcedAttemptsBounded ==
    (req.op = "buy_number_with_retry" /\ force_brazil(req.service)
        /\ req.country # brazil_code) =>
        /\ Cardinality({i \in 1..Len(log) :
                           /\ log[i].action = "getNumber"
                           /\ log[i].country = brazil_code}) <= max_brazil_attempts
        /\ \A i \in 1..Len(log) :
              (log[i].action = "getNumber" /\ StatusCallsBefore(i) > max_brazil_attempts)
                  => log[i].country = req.country

\* buy_number, called for a forced service with an alternative country other
\* than the preferred one, has just had its purchase in the preferred country
\* fail.
PreferredFailedInBuyNumber ==
    /\ force_brazil(req.service)
    /\ req.country # brazil_code
    /\ Len(log) > 0
    /\ log[Len(log)].action = "getNumber"
    /\ log[Len(log)].country = brazil_code
    /\ ~Succeeded(log[Len(log)])
    /\ \/ pc = "bn_enter" /\ depth > 0
       \/ pc = "idle" /\ depth = RecursionLimit

\* A purchase has been attempted in the caller's alternative country.
FallbackAttempted ==
    \E i \in 1..Len(log) :
        log[i].action = "getNumber" /\ log[i].country = req.country

\* C12 as claimed: once the purchase of buy_number in the preferred country
\* has failed and the alternative country differs from it, a purchase is
\* attempted in the alternative country.
C12_FallbackReached == PreferredFailedInBuyNumber ~> FallbackAttempted

\* ------------------------------------------- claims on execute_with_retry
\* The calls of func, the remote requests and the sleeps of the call, in order.
Calls == SelectSeq(events, LAMBDA e : e["ev"] = "call")
Requests == SelectSeq(events, LAMBDA e : e["ev"] = "request")
Sleeps == SelectSeq(events, LAMBDA e : e["ev"] = "sleep")
RetryDone == retry_pc = "done"

\* C13: execute_with_retry calls func at most max_retries times and sleeps at
\* most max_retries - 1 times; every sleep comes right after a call, while an
\* attempt is still left, and is followed by the next call: the executor
\* never sleeps after its last attempt.
C13_AtMostMaxRetries ==
    /\ Len(Calls) <= max_retries
    /\ Len(Sleeps) <= (IF max_retries > 0 THEN max_retries - 1 ELSE 0)
    /\ \A i \in 1..Len(events) :
          events[i].ev = "sleep" =>
              /\ i > 1
              /\ events[i - 1].ev = "call"
              /\ Cardinality({k \in 1..i : events[k].ev = "call"}) < max_retries
              /\ i < Len(events) => events[i + 1].ev \in {"call", "request"}
              /\ RetryDone => i < Len(events)

\* C13 witness: every one of three attempts failed with a retried exception;
\* func was called three times, with a sleep after the first and after the
\* second call only, and {} was returned.
C13_Witness ==
    /\ RetryDone
    /\ max_retries = 3
    /\ Len(Calls) = 3
    /\ Len(Sleeps) = 2
    /\ events[Len(events)].ev = "call"
    /\ events[Len(events)].what[1] = "raise"
    /\ retry_result = EmptyDict

\* C14: a call of func that is followed by a sleep or by another call raised
\* ConnectionError, Timeout or another RequestException; any other exception,
\* and any returned value, ends the loop at once, and a returned value other
\* than None is what execute_with_retry returns.
C14_OnlyTransientRetried ==
    \A i \in 1..Len(events) :
        events[i].ev = "call" =>
            /\ i < Len(events) =>
                  /\ events[i].what[1] = "raise"
                  /\ events[i].what[2] \in {"ConnectionError", "Timeout", "RequestException"}
            /\ (events[i].what[1] = "return" \/
                events[i].what[2] \notin {"ConnectionError", "Timeout", "RequestException"})
                  => /\ RetryDone
                     /\ i = Len(events)
                     /\ (events[i].what[1] = "return" /\ events[i].what[2] # None)
                            => retry_result = events[i].what[2]

\* C14 witness: the first call timed out and was retried after a sleep, the
\* second raised ValueError and ended the call with one attempt left.
C14_Witness ==
    /\ RetryDone
    /\ max_retries = 3
    /\ Len(events) = 3
    /\ events[1].ev = "call"
    /\ events[1].what = <<"raise", "Timeout">>
    /\ events[2].ev = "sleep"
    /\ events[3].ev = "call"
    /\ events[3].what = <<"raise", "ValueError">>

\* The call ended without a result of func: its last call of func raised, or
\* returned None.
Defaulted ==
    /\ RetryDone
    /\ Len(Calls) > 0
    /\ \/ Calls[Len(Calls)].what[1] = "raise"
       \/ Calls[Len(Calls)].what = <<"return", None>>

\* C15 as claimed: when execute_with_retry ends without a result of func it
\* returns the empty mapping if func is a lookup and zero if func is a count.
C15_DefaultFitsCaller ==
    /\ (Defaulted /\ func \in {"lookup", "fetch_prices"}) => retry_result = EmptyDict
    /\ (Defaulted /\ func \in {"count", "check_brazil", "check_availability"})
           => retry_result = Zero

\* C16 as claimed: when a request of fetch_prices, check_brazil or
\* check_availability fails with a connection error or a timeout, the request
\* is issued again, unless it was the max_retries-th request of the call.
C16_TransientIsRetried ==
    (RetryDone /\ func \in {"fetch_prices", "check_brazil", "check_availability"}) =>
        \A i \in 1..Len(Requests) :
            Requests[i].what \in {"ConnectionError", "Timeout"}
                => (i < Len(Requests) \/ i = max_retries)

\* C27 as claimed: a purchase is requested only in a request at whose start
\* get_reusable_number would have found no lease for the service.
C27_PurchaseOnlyOnReuseMiss ==
    Len(Purchases) > 0 =>
        selected_index(cleanup_expired_numbers(req.pre, now), req.service, now) = 0

\* ------------------------------------ claims on the answers of the provider
\* C17 as claimed: after a getNumber request for a country has been rejected
\* with NO_BALANCE, BAD_SERVICE, BAD_KEY or NO_NUMBERS, the request issues no
\* further getNumber request for that country.
C17_RejectionNotRetried ==
    \A i \in 1..Len(log) : \A j \in (i + 1)..Len(log) :
        (/\ log[i].action = "getNumber"
         /\ log[i].response \in RejectionTokens
         /\ log[j].action = "getNumber")
            => log[j].country # log[i].country

\* C18 as claimed: what get_number returns for a rejected purchase differs
\* from what it returns for every other rejection token.
C18_DistinctFailureReasons ==
    \A i \in 1..Len(log) :
        (log[i].action = "getNumber" /\ log[i].response \in RejectionTokens) =>
            \A token \in RejectionTokens \ {log[i].response} :
                get_number(<<token>>) # log[i].result

\* -------------------------------------------------- claims on get_sms_code
\* The getStatus requests and the set_status calls of the wait, in order.
Polls == SelectSeq(wait_events, LAMBDA e : e["ev"] = "getStatus")
StatusCalls == SelectSeq(wait_events, LAMBDA e : e["ev"] = "setStatus")
WaitDone == wait_pc = "done"

\* No request of the wait met STATUS_OK or STATUS_CANCEL.
NeverAnswered ==
    \A i \in 1..Len(Polls) : Polls[i].what \notin {"STATUS_OK", "STATUS_CANCEL"}

\* C19: every wait returns; a wait none of whose requests met a code or a
\* cancellation has made exactly max_attempts getStatus requests for its
\* activation, then exactly one set_status call, set_status(id, 6), and has
\* returned None.
C19_TimeoutPollsThenCancels ==
    /\ (wait_pc = "poll") ~> (wait_pc = "done")
    /\ []((WaitDone /\ NeverAnswered) =>
            /\ Len(Polls) = max_attempts
            /\ \A i \in 1..Len(Polls) : Polls[i].id = wait_id
            /\ Len(StatusCalls) = 1
            /\ StatusCalls[1].id = wait_id
            /\ StatusCalls[1].what = 6
            /\ wait_events[Len(wait_events)].ev = "setStatus"
            /\ wait_result = None)

\* C19 witness: a wait of three attempts whose requests met an answer that is
\* not 200, an exception and a text without code, and which ended with the
\* cancel call.
C19_Witness ==
    /\ WaitDone
    /\ max_attempts = 3
    /\ Len(Polls) = 3
    /\ Polls[1].what = "status_500"
    /\ Polls[2].what = "Timeout"
    /\ Polls[3].what = "STATUS_WAIT_CODE"
    /\ wait_events[Len(wait_events)].ev = "setStatus"
    /\ wait_result = None

C21_CredentialReadBeforeEveryRequest ==
    \A i \in 1..Len(wait_events) :
        wait_events[i].ev \in {"getStatus", "setStatus"} =>
            wait_events[i].key = wait_events[i].current

\* C28 as claimed: once the webhook has received the code of the activation
\* during a wait, after a getStatus request of that wait, the wait sends no
\* further getStatus request.
C28_WebhookArrivalStopsWait ==
    \A i \in 2..Len(Polls) : Polls[i].pushed => Polls[i - 1].pushed

\* ------------------------------------------ claims on get_cheapest_country
Chosen == cheapest.op = "get_cheapest_country"

\* The positions of country_priority whose country has inventory.
AvailablePositions ==
    {i \in 1..Len(country_priority) : country_priority[i] \in cheapest.available}

\* C29: when get_number_status reports a count above 0 for Brazil,
\* get_cheapest_country returns Brazil, whatever the inventory and the prices
\* of the other countries are and whether there is a price for Brazil or not.
C29_PreferredWheneverAvailable ==
    (Chosen /\ brazil_code \in cheapest.available) => cheapest.ret[1] = brazil_code

\* C29 witness: Brazil has inventory and no price, the United States have
\* inventory and a price, and Brazil is returned with the price 0.0.
C29_Witness ==
    /\ Chosen
    /\ brazil_code \in cheapest.available
    /\ brazil_code \notin cheapest.priced
    /\ "187" \in cheapest.available \cap cheapest.priced
    /\ cheapest.ret = <<brazil_code, NoCost>>

\* C30 as claimed: when Brazil has no inventory, get_cheapest_country returns
\* the first country of country_priority that has inventory, and (None, None)
\* only when no country has inventory.
C30_FirstAvailableInPriorityOrder ==
    (Chosen /\ brazil_code \notin cheapest.available) =>
        IF AvailablePositions = {}
        THEN cheapest.ret = Failure
        ELSE \E i \in AvailablePositions :
                /\ \A j \in AvailablePositions : i <= j
                /\ cheapest.ret[1] = country_priority[i]

\* The order of priority the docstring of get_cheapest_country lists.
documented_priority == <<"73", "36", "187", "52", "16", "151", "224", "156", "225">>

\* The positions of documented_priority whose country has inventory.
DocumentedPositions ==
    {i \in 1..Len(documented_priority) :
        documented_priority[i] \in cheapest.available}

\* C31 as claimed: when Brazil has no inventory and every country that has
\* inventory has a price, get_cheapest_country returns the first country of
\* the documented order 73, 36, 187, 52, 16, 151, 224, 156, 225 that has
\* inventory: Canada before the United States.
C31_DocumentedPriorityOrder ==
    (Chosen /\ brazil_code \notin cheapest.available
        /\ cheapest.available # {} /\ cheapest.available \subseteq cheapest.priced) =>
        \E i \in DocumentedPositions :
            /\ \A j \in DocumentedPositions : i <= j
            /\ cheapest.ret[1] = documented_priority[i]

\* ------------------------------------ claims on the requests to the provider
Called == boundary.op # "none"
StatusMethods == {"get_number_status", "PhoneManager.get_number_status"}

\* What a method returns when it has nothing to give.
SafeDefault(method) ==
    CASE method = "get_balance" -> PyNone
      [] method = "get_prices" -> PyDict(EmptyDict)
      [] method \in StatusMethods -> PyInt(0)
      [] method = "get_number" -> PyPair(PyNone, PyNone)
      [] method \in {"set_status", "cancel_number"} -> PyBool(FALSE)
      [] OTHER -> PyNone

\* The request was made and met an exception or an answer that is not 200.
RequestFailed ==
    /\ boundary.country # "" /\ boundary.service # ""
    /\ (boundary.reply[1] = "answer" => boundary.reply[2] # HTTP_OK)

\* The body of the 200 answer is one the method cannot read: a text that is
\* not JSON or a document of the wrong shape (get_prices), an amount that is
\* missing or not a number (get_balance), an ACCESS_NUMBER or STATUS_OK answer
\* with the wrong number of parts.
Malformed ==
    /\ boundary.reply[1] = "answer"
    /\ boundary.reply[2] = HTTP_OK
    /\ boundary.reply[3] \in
          {Text(<<"ACCESS_BALANCE", "abc">>), Text(<<"ACCESS_BALANCE">>),
           Json(<<"no_cost">>), Json(<<"bad_cost">>), Json(<<"list">>),
           Text(<<"ACCESS_NUMBER", "1">>), Text(<<"STATUS_OK", "47", "11">>)}

\* C32: every call of a method of SMSAPI, and of get_number_status of
\* PhoneManager, returns: no exception leaves it, whatever its request meets.
\* After an exception of the request, and after a 200 answer it cannot read,
\* it returns its default: None, {}, 0, (None, None) or False.
C32_FailuresAbsorbed ==
    Called =>
        /\ boundary.ret[1] = "return"
        /\ (boundary.reply[1] # "answer" \/ Malformed) =>
              boundary.ret[2] = SafeDefault(boundary.op)

\* C32 witness: get_balance met the 200 answer ACCESS_BALANCE:abc, float()
\* raised ValueError inside the method, and None was returned.
C32_Witness ==
    /\ Called
    /\ boundary.op = "get_balance"
    /\ boundary.reply = Answer(HTTP_OK, Text(<<"ACCESS_BALANCE", "abc">>))
    /\ boundary.ret = Return(PyNone)

\* The count the JSON mapping of the answer holds for the service.
CountOf(reply) == reply[3][2][2]
HoldsCount ==
    /\ boundary.op \in StatusMethods
    /\ boundary.country # "" /\ boundary.service # ""
    /\ boundary.reply[1] = "answer"
    /\ boundary.reply[2] = HTTP_OK
    /\ boundary.reply[3][1] = "json"
    /\ boundary.reply[3][2][1] = "dict"

\* C35 as claimed: get_number_status returns an integer, and returns 0 unless
\* the count of the answer is an integer.
C35_NonIntegerIsZero ==
    (Called /\ boundary.op \in StatusMethods) =>
        /\ boundary.ret[1] = "return"
        /\ boundary.ret[2][1] = "int"
        /\ ~(HoldsCount /\ CountOf(boundary.reply)[1] = "int") => boundary.ret[2][2] = 0

\* C35 amended: get_number_status returns an integer: int(count) for a count
\* that is an integer, a float or a string of decimal digits, and 0 for a
\* count that is null, missing or of another kind, for a document that is not
\* a mapping, for an answer that is not 200, for an exception of the request
\* and for a call without country or service.
C35_AlwaysAnInteger ==
    (Called /\ boundary.op \in StatusMethods) =>
        /\ boundary.ret[1] = "return"
        /\ boundary.ret[2][1] = "int"
        /\ boundary.ret[2][2] =
              IF ~HoldsCount THEN 0
              ELSE LET c == CountOf(boundary.reply) IN
                   CASE c[1] = "int" -> c[2]
                     [] c[1] = "ratio" -> c[2] \div c[3]
                     [] c = <<"str", <<"3">>>> -> 3
                     [] c = <<"str", <<"1", "2">>>> -> 12
                     [] OTHER -> 0

\* C35 witness: the answer holds the count "12", a string, and 12 is
\* returned by the method of PhoneManager.
C35_Witness ==
    /\ Called
    /\ boundary.op = "PhoneManager.get_number_status"
    /\ HoldsCount
    /\ CountOf(boundary.reply) = <<"str", <<"1", "2">>>>
    /\ boundary.ret = Return(PyInt(12))

\* -------------------------------------------- claims on the backing file
Loaded == last.op = "_load_numbers"

\* The file holds what the last save wrote.
Intact == last.content = <<"json", json_dump(last.written)>>

\* C33 as claimed: a load returns the empty list when the file is absent or
\* holds anything but what a save wrote, and otherwise returns the pool that
\* the last save wrote.
C33_LoadRoundTrip ==
    Loaded =>
        IF Intact
        THEN loaded = Return(PyList(last.written))
        ELSE loaded = Return(PyList(<<>>))

\* -------------------------------------------- claims on the forced attempts
\* The availability checks of the request, in order.
StatusChecks == SelectSeq(log, LAMBDA c : c["action"] = "getNumbersStatus")

\* The request is inside the loop of buy_number_with_retry.
InForcedLoop == req.op = "buy_number_with_retry" /\ pc \in {"bwr_status", "bwr_buy"}

\* The loop of buy_number_with_retry ended without a number and buy_number is
\* about to be called.
ForcedLoopExhausted ==
    /\ req.op = "buy_number_with_retry"
    /\ force_brazil(req.service)
    /\ pc = "bn_enter"
    /\ depth = 0

\* C34 as claimed: an availability check that returns 0 for the forced
\* country does not consume the forced-attempt budget; the attempts counted
\* against max_brazil_attempts are the purchase attempts, so the loop ends
\* without a number only after max_brazil_attempts purchases failed.
C34_UnavailableNotCounted ==
    /\ InForcedLoop => attempt = Len(Purchases)
    /\ ForcedLoopExhausted => Len(Purchases) = max_brazil_attempts

\* C34 amended: every iteration of the loop counts, whether it ends at an
\* availability of 0 or at a failed purchase.  The iterations made are the
\* availability checks made, at most max_brazil_attempts of them, each
\* followed by at most one purchase attempt, and the loop ends without a
\* number after exactly max_brazil_attempts checks.
C34_EveryIterationCounted ==
    /\ (InForcedLoop /\ pc = "bwr_status") => attempt = Len(StatusChecks)
    /\ (InForcedLoop /\ pc = "bwr_buy") => attempt + 1 = Len(StatusChecks)
    /\ InForcedLoop => /\ Len(StatusChecks) <= max_brazil_attempts
                        /\ Len(Purchases) <= Len(StatusChecks)
    /\ ForcedLoopExhausted => Len(StatusChecks) = max_brazil_attempts

\* C34 witness: Brazil reported 0 at every check, so the loop ended after
\* max_brazil_attempts iterations without one purchase attempt.
C34_Witness ==
    /\ ForcedLoopExhausted
    /\ Len(Purchases) = 0
    /\ Len(StatusChecks) = max_brazil_attempts
    /\ \A i \in 1..Len(StatusChecks) : StatusChecks[i].result = 0

\* ------------------------------------------ claims on the wait and the pool
\* The last wait gave up on this activation: its polls ran out and
\* get_sms_code sent set_status(id, 6).
TimedOut(id) ==
    /\ wait_pc = "done"
    /\ wait_id = id
    /\ wait_events # <<>>
    /\ wait_events[Len(wait_events)].ev = "setStatus"
    /\ wait_events[Len(wait_events)].what = 6

\* The leases of the pool that the step takes out of it.
Departed == {i \in 1..Len(numbers) : IndexOfPhone(numbers', numbers[i].phone_number) = 0}

\* The step is a call of get_reusable_number.
ReuseStep == \E s \in Services : GetReusableNumber(s)

\* C36 as claimed: a lease leaves the pool only by a confirmed cancellation
\* of its activation, by remove_number of its number, or by the pruning of a
\* call of get_reusable_number once it is reuse_window old; and a call of
\* get_reusable_number made after a wait timed out on an activation and sent
\* set_status 6 for it does not return the lease of that activation.
C36_TimedOutLeaseNotOffered ==
    [][/\ \A i \in Departed :
            \/ CancelNumber(numbers[i].activation_id, "ACCESS_CANCEL")
            \/ RemoveNumber(numbers[i].phone_number)
            \/ ReuseStep /\ (now' - numbers[i].first_used) >= reuse_window
       /\ (ReuseStep /\ last'.idx # 0) => ~TimedOut(last'.ret.activation_id)]_vars

\* ------------------------------------------ claims on the life of a lease
\* The lease of the pool after the step that continues lease n of the pool
\* before it: the same number under the same activation.
Continues(m, n) ==
    m.phone_number = n.phone_number /\ m.activation_id = n.activation_id

\* The step is a call of add_number that the pool accepted for this number.
AcquiredFor(phone_number, service) ==
    /\ last'.op = "add_number"
    /\ last'.phone_number = phone_number
    /\ last'.service = service
    /\ numbers' # numbers

\* C37: each (lease, service) pair is handed out by get_reusable_number at
\* most once.  A call for S returns only a lease that has not S among its
\* services; the lease a call returns for S, and the lease add_number stores
\* or updates for S, has S among its services from then on; and S stays
\* among the services of a lease for as long as the lease is in the pool.
C37_HandedOutOncePerService ==
    [][/\ ReuseStep /\ last'.idx # 0 =>
            /\ \A i \in 1..Len(numbers) :
                  Continues(last'.ret, numbers[i]) =>
                      last'.service \notin Range(numbers[i].services)
            /\ \E j \in 1..Len(numbers') :
                  /\ Continues(numbers'[j], last'.ret)
                  /\ last'.service \in Range(numbers'[j].services)
       /\ \A p \in Phones, s \in Services :
            AcquiredFor(p, s) =>
                \E j \in 1..Len(numbers') :
                    /\ numbers'[j].phone_number = p
                    /\ s \in Range(numbers'[j].services)
       /\ \A i \in 1..Len(numbers), j \in 1..Len(numbers') :
            Continues(numbers'[j], numbers[i]) =>
                Range(numbers[i].services) \subseteq Range(numbers'[j].services)]_vars

\* C37 witness: get_reusable_number(S) returned None although the pool holds
\* a lease used a moment ago, because that lease was already handed out for
\* S; the same lease had been returned for another service before.
C37_Witness ==
    /\ ReuseCalled
    /\ last.idx = 0
    /\ \E i \in 1..Len(last.pruned) :
          /\ (last.t - last.pruned[i].last_used) < reuse_window
          /\ last.service \in Range(last.pruned[i].services)
          /\ Len(last.pruned[i].services) = 2
          /\ last.pruned[i].country_code = brazil_code

\* The step is a purchase that ends in add_number for this number.
PurchaseStep(phone_number) ==
    /\ issued' = issued + 1
    /\ last'.op = "add_number"
    /\ last'.phone_number = phone_number

\* C38 as claimed: add_number for a number already in the pool leaves the
\* activation_id, the country_code and first_used of its lease unchanged,
\* and after every purchase of a number the lease of that number holds the
\* activation_id of that purchase and has first_used at the time of it.
C38_ActivationOfLatestPurchase ==
    [][\A p \in Phones :
          PurchaseStep(p) =>
              LET i == IndexOfPhone(numbers, p)
                  j == IndexOfPhone(numbers', p)
              IN /\ j # 0
                 /\ i # 0 => /\ numbers'[j].activation_id = numbers[i].activation_id
                             /\ numbers'[j].country_code = numbers[i].country_code
                             /\ numbers'[j].first_used = numbers[i].first_used
                 /\ numbers'[j].activation_id = ActivationId(issued')
                 /\ numbers'[j].first_used = now']_vars

\* C39: every lease of the pool has first_used <= last_used and lists at
\* least one service and at most as many services as it counts uses.
C39_LeaseWellFormed ==
    \A i \in 1..Len(numbers) :
        /\ numbers[i].first_used <= numbers[i].last_used
        /\ 1 <= Len(numbers[i].services)
        /\ Len(numbers[i].services) <= numbers[i].times_used

\* C39 witness: a lease that was used again after the clock advanced, for a
\* service it already listed: last_used is later than first_used and the
\* uses outnumber the services.
C39_Witness ==
    \E i \in 1..Len(numbers) :
        /\ numbers[i].first_used < numbers[i].last_used
        /\ Len(numbers[i].services) < numbers[i].times_used

\* ------------------------------------- claims on the calls that change the pool
\* The last call was refused: add_number with incomplete data, or
\* remove_number or mark_number_used for a number the pool did not hold.
Refused ==
    \/ /\ last.op = "add_number"
       /\ "" \in {last.phone_number, last.country_code, last.activation_id}
    \/ /\ last.op \in {"remove_number", "mark_number_used"}
       /\ WithPhone(last.pre, last.phone_number) = {}

\* C40: a refused call returns False and leaves the pool and the backing
\* file as they were; remove_number of a number the pool holds returns True
\* and takes exactly the lease of that number out of the pool.
C40_RefusedCallsChangeNothing ==
    /\ Refused => /\ last.ret = FALSE
                   /\ numbers = last.pre
                   /\ stored = last.file
    /\ (last.op = "remove_number" /\ WithPhone(last.pre, last.phone_number) # {}) =>
          /\ last.ret = TRUE
          /\ Len(numbers) = Len(last.pre) - 1
          /\ numbers = SelectSeq(last.pre,
                                 LAMBDA n : n["phone_number"] # last.phone_number)
          /\ stored = numbers

\* C40 witness: add_number was called without an activation_id for a number
\* the pool holds; it returned False and the lease of the number was not
\* touched.
C40_Witness ==
    /\ last.op = "add_number"
    /\ last.activation_id = ""
    /\ last.country_code # ""
    /\ WithPhone(last.pre, last.phone_number) # {}
    /\ last.ret = FALSE
    /\ numbers = last.pre

====
